---- MODULE Spec2Model ----
(***************************************************************************)
(* VidParse-Pro: the input-resolution pipeline (services/parserService.ts), *)
(* the app's parse handler (App.tsx) and the player's buffering transfer    *)
(* (components/VideoPlayer.tsx).                                            *)
(*                                                                          *)
(* Text is modelled as a sequence of one-character strings, so that the     *)
(* regular expressions of the classifier are computed character by          *)
(* character, as the code computes them.                                    *)
(***************************************************************************)
EXTENDS Integers, Sequences, FiniteSets, TLC

\* ------------------------------------------------------------------------
\* Characters and string primitives

Lower == {"a","b","c","d","e","f","g","h","i","j","k","l","m",
          "n","o","p","q","r","s","t","u","v","w","x","y","z"}

Upper == {"A","B","C","D","E","F","G","H","I","J","K","L","M",
          "N","O","P","Q","R","S","T","U","V","W","X","Y","Z"}

Digit == {"0","1","2","3","4","5","6","7","8","9"}

\* [a-zA-Z0-9]
Alnum == Lower \cup Upper \cup Digit

\* \s of a JavaScript regular expression, and what String.trim strips
Whitespace == {" ", "\t", "\n", "\r"}

\* what "." of a JavaScript regular expression does not match
LineTerminator == {"\n", "\r"}

\* JavaScript's undefined / null / '' are all falsy: the empty text stands for
\* '' and for "no match"; Undefined stands for a field that is not there.
Empty == << >>

Undefined == << "<undefined>" >>

Truthy(s) == s # Empty /\ s # Undefined

\* s.includes(lit), and the literal lit standing at index i of s
LitAt(s, i, lit) ==
    /\ i >= 1
    /\ i + Len(lit) - 1 <= Len(s)
    /\ \A k \in 1..Len(lit) : s[i + k - 1] = lit[k]

includes(s, lit) == \E i \in 1..Len(s) : LitAt(s, i, lit)

\* every character of s[i..j] lies in class (false when the range leaves s)
AllIn(s, i, j, class) ==
    /\ i >= 1
    /\ j <= Len(s)
    /\ \A k \in i..j : s[k] \in class

AllNotIn(s, i, j, class) ==
    /\ i >= 1
    /\ j <= Len(s)
    /\ \A k \in i..j : s[k] \notin class

Min(S) == CHOOSE x \in S : \A y \in S : x <= y

Max(S) == CHOOSE x \in S : \A y \in S : x >= y

\* String.prototype.trim
trim(s) ==
    LET keep == {i \in 1..Len(s) : s[i] \notin Whitespace}
    IN  IF keep = {} THEN Empty ELSE SubSeq(s, Min(keep), Max(keep))

\* ------------------------------------------------------------------------
\* The classifier's regular expressions (parserService.ts)

BVIdLen == 10

YTIdLen == 11

\* /(BV[a-zA-Z0-9]{10})/ : group 1 of the leftmost match, Empty when none
BVStarts(s) ==
    {i \in 1..Len(s) : LitAt(s, i, <<"B","V">>) /\ AllIn(s, i + 2, i + 1 + BVIdLen, Alnum)}

BVMatch(s) ==
    LET st == BVStarts(s)
    IN  IF st = {} THEN Empty ELSE SubSeq(s, Min(st), Min(st) + 1 + BVIdLen)

\* /(?:av)([0-9]+)/ : group 1 (the greedy digit run) of the leftmost match
AVStarts(s) ==
    {i \in 1..Len(s) : LitAt(s, i, <<"a","v">>) /\ AllIn(s, i + 2, i + 2, Digit)}

DigitRunEnd(s, i) == Max({j \in i..Len(s) : AllIn(s, i, j, Digit)})

AVMatch(s) ==
    LET st == AVStarts(s)
    IN  IF st = {} THEN Empty ELSE SubSeq(s, Min(st) + 2, DigitRunEnd(s, Min(st) + 2))

\* [^"&?\/\s]
YTIdExcluded == {"\"", "&", "?", "/"} \cup Whitespace

\* the group ([^"&?\/\s]{11}) standing at index i
YTIdAt(s, i) == AllNotIn(s, i, i + YTIdLen - 1, YTIdExcluded)

\* youtube\.com\/ [^\/]+ \/ .+ \/ (id) tried at q, the index after "youtube.com/":
\* the greedy .+ backtracks to the last "/" that the id can follow.
\* The result is the index of the id, 0 when the branch fails.
YTPathBranch(s, q) ==
    LET runs == {r \in (q + 1)..Len(s) : s[r] = "/" /\ AllNotIn(s, q, r - 1, {"/"})}
        r0   == IF runs = {} THEN 0 ELSE Min(runs)
        ks   == {k \in (r0 + 2)..Len(s) :
                   /\ r0 # 0
                   /\ s[k] = "/"
                   /\ YTIdAt(s, k + 1)
                   /\ AllNotIn(s, r0 + 1, k - 1, LineTerminator)}
    IN  IF ks = {} THEN 0 ELSE Max(ks) + 1

\* youtube\.com\/ (?:v|e(?:mbed)?) \/ (id)
YTEmbedBranch(s, q) ==
    IF LitAt(s, q, <<"v","/">>) /\ YTIdAt(s, q + 2) THEN q + 2
    ELSE IF LitAt(s, q, <<"e","m","b","e","d","/">>) /\ YTIdAt(s, q + 6) THEN q + 6
    ELSE IF LitAt(s, q, <<"e","/">>) /\ YTIdAt(s, q + 2) THEN q + 2
    ELSE 0

\* youtube\.com\/ .*[?&]v= (id) : the greedy .* backtracks to the last [?&]v=
YTQueryBranch(s, q) ==
    LET ks == {k \in q..Len(s) :
                 /\ s[k] \in {"?", "&"}
                 /\ LitAt(s, k + 1, <<"v","=">>)
                 /\ AllNotIn(s, q, k - 1, LineTerminator)
                 /\ YTIdAt(s, k + 3)}
    IN  IF ks = {} THEN 0 ELSE Max(ks) + 3

\* the whole ytRegex tried at start index p: index of the id, 0 when no match
YTAt(s, p) ==
    IF LitAt(s, p, <<"y","o","u","t","u","b","e",".","c","o","m","/">>)
    THEN LET q    == p + 12
             path == YTPathBranch(s, q)
             emb  == YTEmbedBranch(s, q)
         IN  IF path # 0 THEN path
             ELSE IF emb # 0 THEN emb
             ELSE YTQueryBranch(s, q)
    ELSE IF LitAt(s, p, <<"y","o","u","t","u",".","b","e","/">>) /\ YTIdAt(s, p + 9) THEN p + 9
    ELSE 0

YTStarts(s) == {p \in 1..Len(s) : YTAt(s, p) # 0}

\* url.match(ytRegex)[1], Empty when there is no match
YTMatch(s) ==
    LET starts == YTStarts(s)
        at     == YTAt(s, Min(starts))
    IN  IF starts = {} THEN Empty ELSE SubSeq(s, at, at + YTIdLen - 1)

\* /\.(mp4|webm|ogg|mov)$/i
EndsWithCI(s, cs) ==
    /\ Len(s) >= Len(cs)
    /\ \A k \in 1..Len(cs) : s[Len(s) - Len(cs) + k] \in cs[k]

ExtMp4 == << {"."}, {"m","M"}, {"p","P"}, {"4"} >>

ExtWebm == << {"."}, {"w","W"}, {"e","E"}, {"b","B"}, {"m","M"} >>

ExtOgg == << {"."}, {"o","O"}, {"g","G"}, {"g","G"} >>

ExtMov == << {"."}, {"m","M"}, {"o","O"}, {"v","V"} >>

DirectMatchCaseSensitive(s) ==
    \/ EndsWithCI(s, << {"."}, {"m"}, {"p"}, {"4"} >>)
    \/ EndsWithCI(s, << {"."}, {"w"}, {"e"}, {"b"}, {"m"} >>)
    \/ EndsWithCI(s, << {"."}, {"o"}, {"g"}, {"g"} >>)
    \/ EndsWithCI(s, << {"."}, {"m"}, {"o"}, {"v"} >>)

DirectMatch(s) ==
    \/ EndsWithCI(s, ExtMp4)
    \/ EndsWithCI(s, ExtWebm)
    \/ EndsWithCI(s, ExtOgg)
    \/ EndsWithCI(s, ExtMov)

\* url.split('/').pop() : the text after the last "/"
LastSegment(s) ==
    LET sl == {i \in 1..Len(s) : s[i] = "/"}
    IN  IF sl = {} THEN s ELSE SubSeq(s, Max(sl) + 1, Len(s))

\* ------------------------------------------------------------------------
\* formatDuration (parserService.ts)

DigitChars == <<"0","1","2","3","4","5","6","7","8","9">>

RECURSIVE Dec(_)
\* the decimal numeral of a natural number, as `${n}` prints it
Dec(n) == IF n < 10 THEN << DigitChars[n + 1] >>
          ELSE Dec(n \div 10) \o << DigitChars[(n % 10) + 1] >>

formatDurationPadLE(seconds) ==
    LET m == seconds \div 60
        s == seconds % 60
    IN  Dec(m) \o <<":">> \o (IF s <= 10 THEN <<"0">> ELSE Empty) \o Dec(s)

formatDuration(seconds) ==
    LET m == seconds \div 60
        s == seconds % 60
    IN  Dec(m) \o <<":">> \o (IF s < 10 THEN <<"0">> ELSE Empty) \o Dec(s)

\* ------------------------------------------------------------------------
\* encodeURIComponent, for the characters of the texts that are encoded here

\* A-Z a-z 0-9 - _ . ! ~ * ' ( ) are left as they are
Unreserved == Alnum \cup {"-", "_", ".", "!", "~", "*", "'", "(", ")"}

Escaped(c) ==
    CASE c = ":" -> <<"%","3","A">>
      [] c = "/" -> <<"%","2","F">>
      [] c = "?" -> <<"%","3","F">>
      [] c = "=" -> <<"%","3","D">>
      [] c = "&" -> <<"%","2","6">>
      [] c = " " -> <<"%","2","0">>
      [] c = "#" -> <<"%","2","3">>
      [] c = "%" -> <<"%","2","5">>
      [] c = "+" -> <<"%","2","B">>
      [] c = "," -> <<"%","2","C">>
      [] c = ";" -> <<"%","3","B">>
      [] c = "@" -> <<"%","4","0">>
      [] c = "$" -> <<"%","2","4">>
      [] c = "\"" -> <<"%","2","2">>
      [] c = "<" -> <<"%","3","C">>
      [] c = ">" -> <<"%","3","E">>
      [] c = "\n" -> <<"%","0","A">>
      [] c = "\t" -> <<"%","0","9">>

RECURSIVE encodeURIComponent(_)
encodeURIComponent(s) ==
    IF s = Empty THEN Empty
    ELSE (IF Head(s) \in Unreserved THEN <<Head(s)>> ELSE Escaped(Head(s)))
             \o encodeURIComponent(Tail(s))

\* ------------------------------------------------------------------------
\* Inputs of the model: texts a user can paste

BVIds == { <<"B","V","1","G","J","4","1","1","x","7","h","7">>, <<"B","V","1","x","x","4","1","1","c","7","m","D">> }

AVDigits == { <<"1","7","0","0","0","1">>, <<"2">> }

BiliPrefixes ==
    { Empty,
      <<"h","t","t","p","s",":","/","/","w","w","w",".","b","i","l","i","b","i","l","i",".","c","o","m","/","v","i","d","e","o","/">>,
      <<"/","/","m",".","b","i","l","i","b","i","l","i",".","c","o","m","/","v","i","d","e","o","/">>,
      <<" "," ","h","t","t","p",":","/","/","b","i","l","i","b","i","l","i",".","c","o","m","/","v","i","d","e","o","/">> }

BVSuffixes ==
    { Empty,
      <<"?","p","=","2","&","f","r","o","m","=","a","v","9","9">>,
      <<"/","?","s","p","m","_","i","d","_","f","r","o","m","=","3","3","3",".","1","0","0","7","&","v","d","=","B","V","1","x","x","4","1","1","c","7","m","D","D">>,
      <<"x","9"," ">> }

AVSuffixes == { Empty, <<"/","?","p","=","2">>, <<"?","t","=","B","V","s","h","o","r","t"," "," ">> }

\* [text |-> the pasted text, id |-> the identifier written into it]
BVInputs ==
    { [text |-> p \o id \o s, id |-> id] : p \in BiliPrefixes, id \in BVIds, s \in BVSuffixes }

AVInputs ==
    { [text |-> p \o <<"a","v">> \o d \o s, id |-> d] :
        p \in BiliPrefixes, d \in AVDigits, s \in AVSuffixes }

YTIds == { <<"d","Q","w","4","w","9","W","g","X","c","Q">>, <<"a","-","b","_","c","1","d","2","e","3","f">>, <<"x","a","v","1","2","3","4","5","6","7","_">> }

YTFormats ==
    { <<"h","t","t","p","s",":","/","/","w","w","w",".","y","o","u","t","u","b","e",".","c","o","m","/","w","a","t","c","h","?","v","=">>,
      <<"h","t","t","p","s",":","/","/","y","o","u","t","u",".","b","e","/">>,
      <<"h","t","t","p","s",":","/","/","w","w","w",".","y","o","u","t","u","b","e",".","c","o","m","/","e","m","b","e","d","/">> }

YTSuffixes == { Empty, <<"&","l","i","s","t","=","P","L","1">> }

YTInputs ==
    { [text |-> f \o id \o s, id |-> id] : f \in YTFormats, id \in YTIds, s \in YTSuffixes }

\* texts that end with a media extension
ExtInputs ==
    { <<"h","t","t","p","s",":","/","/","e","x","a","m","p","l","e",".","c","o","m","/","v","i","d","e","o",".","M","P","4">>,
      <<" ","/","/","c","d","n",".","e","x","a","m","p","l","e",".","c","o","m","/","a","/","c","l","i","p",".","w","e","b","m","\n">>,
      <<"m","o","v","i","e",".","O","g","g">>,
      <<"h","t","t","p","s",":","/","/","c","d","n",".","e","x","a","m","p","l","e",".","c","o","m","/","d","e","m","o","/","t","r","a","i","l","e","r",".","m","o","v">>,
      <<"h","t","t","p","s",":","/","/","c","d","n",".","e","x","a","m","p","l","e",".","c","o","m","/","f","a","v","0","1",".","m","p","4">>,
      <<"h","t","t","p","s",":","/","/","c","d","n",".","e","x","a","m","p","l","e",".","c","o","m","/","B","V","1","G","J","4","1","1","x","7","h","7",".","m","p","4">>,
      <<"h","t","t","p","s",":","/","/","y","o","u","t","u",".","b","e","/","d","Q","w","4","w","9","W","g","X","c","Q","/","x",".","m","p","4">> }

\* texts that match no pattern of the classifier
PlainInputs ==
    { Empty,
      <<" "," "," ">>,
      <<"h","e","l","l","o"," ","w","o","r","l","d">>,
      <<"d","e","m","o">>,
      <<" ","m","y"," ","d","e","m","o"," ","c","l","i","p"," ">>,
      <<"h","t","t","p","s",":","/","/","e","x","a","m","p","l","e",".","c","o","m","/","p","a","g","e",".","m","p","4","?","d","o","w","n","l","o","a","d","=","1">>,
      <<"h","t","t","p","s",":","/","/","w","w","w",".","b","i","l","i","b","i","l","i",".","c","o","m","/","v","i","d","e","o","/","B","V","1","G","J","4","1","1","x","7","h">> }

\* texts with the short-link marker
ShortInputs ==
    { <<"h","t","t","p","s",":","/","/","b","2","3",".","t","v","/","a","b","c","1","2","3">>,
      <<"b","2","3",".","t","v","/","x",".","m","p","4">> }

Inputs ==
    {v.text : v \in BVInputs \cup AVInputs \cup YTInputs}
        \cup ExtInputs \cup PlainInputs \cup ShortInputs

\* ------------------------------------------------------------------------
\* Responses of the proxy, as the code reads them

\* a JSON value read as json.code: a number, the string "0", or not there
Num(n) == [t |-> "number", v |-> n]

Str0 == [t |-> "string", v |-> 0]

NoCode == [t |-> "undefined", v |-> 0]

\* json.code === 0: the number 0, not the string "0"
StrictEqZero(c) == c.t = "number" /\ c.v = 0

\* allorigins "get": {status: {url}, contents}
\*   kind: "neterr" fetch rejects, "badjson" response.json() rejects,
\*         "null" the body is the JSON null, "object" a JSON object
ShortLinkResponses ==
    { [kind |-> "neterr",  statusUrl |-> Undefined, contents |-> Undefined],
      [kind |-> "badjson", statusUrl |-> Undefined, contents |-> Undefined],
      [kind |-> "null",    statusUrl |-> Undefined, contents |-> Undefined],
      [kind |-> "object",  statusUrl |-> Undefined, contents |-> Undefined],
      [kind |-> "object",  statusUrl |-> <<"h","t","t","p","s",":","/","/","w","w","w",".","b","i","l","i","b","i","l","i",".","c","o","m","/","v","i","d","e","o","/","B","V","1","G","J","4","1","1","x","7","h","7","?","s","h","a","r","e","=","1">>,
                           contents  |-> <<"<","h","t","m","l",">","B","V","1","x","x","4","1","1","c","7","m","D","<","/","h","t","m","l",">">>],
      [kind |-> "object",  statusUrl |-> <<"h","t","t","p","s",":","/","/","w","w","w",".","y","o","u","t","u","b","e",".","c","o","m","/","w","a","t","c","h","?","v","=","d","Q","w","4","w","9","W","g","X","c","Q">>,
                           contents  |-> Undefined],
      [kind |-> "object",  statusUrl |-> <<"h","t","t","p","s",":","/","/","b","2","3",".","t","v","/","a","b","c","1","2","3">>,
                           contents  |-> <<"<","a"," ","h","r","e","f","=","\"","h","t","t","p","s",":","/","/","w","w","w",".","b","i","l","i","b","i","l","i",".","c","o","m","/","v","i","d","e","o","/","B","V","1","x","x","4","1","1","c","7","m","D","?","p","=","1","\"",">">>],
      [kind |-> "object",  statusUrl |-> Undefined,
                           contents  |-> <<"<","s","c","r","i","p","t",">","v","a","r"," ","i","d","=","'","B","V","1","G","J","4","1","1","x","7","h","7","'",";","<","/","s","c","r","i","p","t",">">>],
      [kind |-> "object",  statusUrl |-> Empty,
                           contents  |-> <<"<","a"," ","h","r","e","f","=","\"","h","t","t","p","s",":","/","/","w","w","w",".","b","i","l","i","b","i","l","i",".","c","o","m","/","v","i","d","e","o","/","a","v","1","7","0","0","0","1","\"",">">>] }

\* bilibili view API: {code, data: {title, pic, desc, duration}}
MetaObject(title, pic, desc, duration) ==
    [title |-> title, pic |-> pic, desc |-> desc, duration |-> duration]

\* the data field: not there, null, or an object
DataMissing == [absent |-> "undefined"]

DataNull == [absent |-> "null"]

Durations == {0, 5, 59, 60, 125, 600, 3599, 3605}

MetaDatas ==
    { MetaObject(Undefined, Undefined, Undefined, 0),
      MetaObject(Empty, <<"/","/","i","0",".","h","d","s","l","b",".","c","o","m","/","c",".","j","p","g">>, Empty, 9) }
    \cup { MetaObject(<<"T","i","t","l","e">>, <<"/","/","i","0",".","h","d","s","l","b",".","c","o","m","/","c",".","j","p","g">>, <<"d","e","s","c">>, d) : d \in Durations }

MetadataResponses ==
    { [kind |-> "neterr",  code |-> NoCode, data |-> DataMissing],
      [kind |-> "badjson", code |-> NoCode, data |-> DataMissing],
      [kind |-> "null",    code |-> NoCode, data |-> DataMissing],
      [kind |-> "object",  code |-> Num(-400), data |-> DataMissing],
      [kind |-> "object",  code |-> Str0, data |-> MetaObject(<<"T","i","t","l","e">>, Empty, Empty, 125)],
      [kind |-> "object",  code |-> Num(0), data |-> DataMissing],
      [kind |-> "object",  code |-> Num(0), data |-> DataNull] }
    \cup { [kind |-> "object", code |-> Num(0), data |-> m] : m \in MetaDatas }

\* injahow bparse: {code, url}
\*   kind: "neterr" fetch rejects, "texterr" res.text() rejects, "badjson"
\*         JSON.parse throws, "null" the body is the JSON null, "object"
StreamResponses ==
    { [kind |-> "neterr",  code |-> NoCode, url |-> Undefined],
      [kind |-> "texterr", code |-> NoCode, url |-> Undefined],
      [kind |-> "badjson", code |-> NoCode, url |-> Undefined],
      [kind |-> "null",    code |-> NoCode, url |-> Undefined],
      [kind |-> "object",  code |-> Num(0), url |-> <<"h","t","t","p","s",":","/","/","x","/","y",".","m","p","4">>],
      [kind |-> "object",  code |-> Num(0), url |-> Empty],
      [kind |-> "object",  code |-> Num(0), url |-> Undefined],
      [kind |-> "object",  code |-> Num(-404), url |-> <<"h","t","t","p","s",":","/","/","x","/","y",".","m","p","4">>],
      [kind |-> "object",  code |-> Str0, url |-> <<"h","t","t","p","s",":","/","/","x","/","y",".","m","p","4">>],
      [kind |-> "object",  code |-> NoCode, url |-> <<"h","t","t","p","s",":","/","/","x","/","y",".","m","p","4">>] }

\* ------------------------------------------------------------------------
\* State

VARIABLES
    inputUrl,    \* App: the text of the input box
    status,      \* App: AppStatus
    data,        \* App: ParsedVideoData | null
    errorMsg,    \* App: the message shown under the input box
    req,         \* the handleParse calls, by slot: where each parseVideoInput
                 \* stands, its locals, the responses it was given, its outcome
    seconds,     \* formatDuration: its argument
    formatted,   \* formatDuration: its value, Undefined before the call
    mounted,          \* VideoPlayer: the component is mounted
    propUrl,          \* VideoPlayer: the url prop
    propPlayerType,   \* VideoPlayer: the playerType prop
    downloadProgress, \* VideoPlayer state, a fraction [n, d]
    isDownloading,    \* VideoPlayer state
    blobUrl,          \* VideoPlayer state: an object URL, or NoBlob
    useDirectStream,  \* VideoPlayer state
    transfers,        \* the runs of fetchVideo, in the order they started
    objectUrls,       \* the object URLs created and not revoked
    isPlaying,        \* VideoPlayer state
    capturedImage,    \* VideoPlayer state: a data URL, or NoImage
    paused,           \* the paused attribute of the <video> element
    notice,           \* the alert() dialog of captureFrame is open
    downloadingUrl,   \* App state: string | null
    downloads,        \* the calls of forceDownload, in the order they were made
    savedFiles,       \* the file names given to the browser to save
    openedTabs        \* the urls opened with window.open

parseVars == <<inputUrl, status, data, errorMsg, req>>

durationVars == <<seconds, formatted>>

playbackVars == <<isPlaying, capturedImage, paused, notice>>

playerVars ==
    <<mounted, propUrl, propPlayerType, downloadProgress, isDownloading, blobUrl,
      useDirectStream, transfers, objectUrls, playbackVars>>

downloadVars == <<downloadingUrl, downloads, savedFiles, openedTabs>>

vars == <<parseVars, durationVars, playerVars, downloadVars>>

Null == [id |-> "null"]

\* the message of App.tsx line 50, which lists the supported formats
\* (B\u7AD9 BV/av/b23.tv, YouTube, MP4)
UnsupportedMsg == "UNSUPPORTED_FORMAT_MESSAGE"

NoResponse == [kind |-> "none"]

IdleRequest ==
    [ pc         |-> "idle",     \* idle | shortlink | meta | stream | done
      input      |-> Empty,
      url        |-> Empty,
      bvid       |-> Empty,
      avid       |-> Empty,
      metaData   |-> MetaObject(Undefined, Undefined, Undefined, 0),
      shortResp  |-> NoResponse,
      metaResp   |-> NoResponse,
      streamResp |-> NoResponse,
      shortReq   |-> Empty,      \* the URLs fetched, '' before the request
      metaReq    |-> Empty,
      streamReq  |-> Empty,
      outcome    |-> "none",     \* none | ignored | resolved | rejected
      result     |-> Null ]

\* ------------------------------------------------------------------------
\* parseVideoInput (parserService.ts lines 197-373)

\* lines 191-195
PROXY_RAW == <<"h","t","t","p","s",":","/","/","a","p","i",".","a","l","l","o","r","i","g","i","n","s",".","w","i","n","/","r","a","w","?","u","r","l","=">>

PROXY_JSON == <<"h","t","t","p","s",":","/","/","a","p","i",".","a","l","l","o","r","i","g","i","n","s",".","w","i","n","/","g","e","t","?","u","r","l","=">>

PARSER_API == <<"h","t","t","p","s",":","/","/","a","p","i",".","i","n","j","a","h","o","w",".","c","n","/","b","p","a","r","s","e","/">>

\* Date.now(), as it is written into a URL
Now == <<"1","7","0","0","0","0","0","0","0","0","0","0","0">>

\* `${proxy}${encodeURIComponent(target)}&t=${Date.now()}`
ProxyUrl(proxy, target) == proxy \o encodeURIComponent(target) \o <<"&","t","=">> \o Now

VideoSource(url, format, quality, size, isDownloadable) ==
    [url |-> url, format |-> format, quality |-> quality, size |-> size,
     isDownloadable |-> isDownloadable]

\* bvid || avid
IdOf(rec) == IF rec.bvid # Empty THEN rec.bvid ELSE rec.avid

\* bvid ? `bvid=${bvid}` : `aid=${avid}`
EmbedIdParam(rec) ==
    IF rec.bvid # Empty THEN <<"b","v","i","d","=">> \o rec.bvid ELSE <<"a","i","d","=">> \o rec.avid

\* lines 245-247: the URL of the metadata request
MetaRequest(rec) ==
    ProxyUrl(PROXY_RAW, <<"h","t","t","p","s",":","/","/","a","p","i",".","b","i","l","i","b","i","l","i",".","c","o","m","/","x","/","w","e","b","-","i","n","t","e","r","f","a","c","e","/","v","i","e","w","?">> \o EmbedIdParam(rec))

\* bvid ? `bv=${bvid}` : `av=${avid}`
ParserIdParam(rec) ==
    IF rec.bvid # Empty THEN <<"b","v","=">> \o rec.bvid ELSE <<"a","v","=">> \o rec.avid

\* lines 261-265: the URL of the stream request
StreamRequest(rec) ==
    ProxyUrl(PROXY_RAW, PARSER_API \o <<"?">> \o ParserIdParam(rec)
                            \o <<"&","p","=","1","&","q","=","8","0","&","f","o","r","m","a","t","=","m","p","4","&","o","t","y","p","e","=","j","s","o","n">>)

\* lines 294-312: the native result. A character outside ASCII is written
\* as the name of its code point.
NativeResult(rec, directUrl) ==
    [ id           |-> IdOf(rec),
      title        |-> IF Truthy(rec.metaData.title) THEN rec.metaData.title
                       ELSE <<"B","i","l","i","b","i","l","i"," ","U+89C6","U+9891"," ","(">> \o IdOf(rec) \o <<")">>,
      platform     |-> "bilibili",
      playerType   |-> "native",
      thumbnailUrl |-> IF Truthy(rec.metaData.pic) THEN rec.metaData.pic ELSE Empty,
      duration     |-> IF rec.metaData.duration # 0
                       THEN formatDuration(rec.metaData.duration) ELSE Empty,
      description  |-> IF Truthy(rec.metaData.desc) THEN rec.metaData.desc ELSE Empty,
      sources      |-> << VideoSource(directUrl, "MP4 (Direct)", "High (q=80)",
                                      "Unknown", TRUE) >> ]

\* lines 317-335: the iframe fallback
IframeResult(rec) ==
    [ id           |-> IdOf(rec),
      title        |-> IF Truthy(rec.metaData.title) THEN rec.metaData.title
                       ELSE <<"B","i","l","i","b","i","l","i"," ","U+89C6","U+9891"," ","(">> \o IdOf(rec) \o <<")">>,
      platform     |-> "bilibili",
      playerType   |-> "iframe",
      thumbnailUrl |-> IF Truthy(rec.metaData.pic) THEN rec.metaData.pic ELSE Empty,
      duration     |-> IF rec.metaData.duration # 0
                       THEN formatDuration(rec.metaData.duration) ELSE Empty,
      description  |-> IF Truthy(rec.metaData.desc) THEN rec.metaData.desc ELSE Empty,
      sources      |-> << VideoSource(
                            <<"/","/","p","l","a","y","e","r",".","b","i","l","i","b","i","l","i",".","c","o","m","/","p","l","a","y","e","r",".","h","t","m","l","?">> \o EmbedIdParam(rec)
                                \o <<"&","h","i","g","h","_","q","u","a","l","i","t","y","=","1","&","d","a","n","m","a","k","u","=","0">>,
                            "Embed", "Auto", "N/A", FALSE) >> ]

YouTubeResultSwapped(videoId) ==
    [ id           |-> videoId,
      title        |-> <<"Y","o","u","T","u","b","e"," ","U+89C6","U+9891">>,
      platform     |-> "youtube",
      playerType   |-> "iframe",
      thumbnailUrl |-> <<"h","t","t","p","s",":","/","/","i","m","g",".","y","o","u","t","u","b","e",".","c","o","m","/","v","i","/">> \o videoId \o <<"/","m","a","x","r","e","s","d","e","f","a","u","l","t",".","j","p","g">>,
      duration     |-> Undefined,
      description  |-> Undefined,
      sources      |-> << VideoSource(<<"h","t","t","p","s",":","/","/","y","o","u","t","u",".","b","e","/">> \o videoId,
                                      "Source", "Original", "External", TRUE),
                          VideoSource(<<"h","t","t","p","s",":","/","/","w","w","w",".","y","o","u","t","u","b","e",".","c","o","m","/","e","m","b","e","d","/">> \o videoId,
                                      "Embed", "Auto", "N/A", FALSE) >> ]

\* lines 342-354
YouTubeResult(videoId) ==
    [ id           |-> videoId,
      title        |-> <<"Y","o","u","T","u","b","e"," ","U+89C6","U+9891">>,
      platform     |-> "youtube",
      playerType   |-> "iframe",
      thumbnailUrl |-> <<"h","t","t","p","s",":","/","/","i","m","g",".","y","o","u","t","u","b","e",".","c","o","m","/","v","i","/">> \o videoId \o <<"/","m","a","x","r","e","s","d","e","f","a","u","l","t",".","j","p","g">>,
      duration     |-> Undefined,
      description  |-> Undefined,
      sources      |-> << VideoSource(<<"h","t","t","p","s",":","/","/","w","w","w",".","y","o","u","t","u","b","e",".","c","o","m","/","e","m","b","e","d","/">> \o videoId,
                                      "Embed", "Auto", "N/A", FALSE),
                          VideoSource(<<"h","t","t","p","s",":","/","/","y","o","u","t","u",".","b","e","/">> \o videoId,
                                      "Source", "Original", "External", TRUE) >> ]

\* lines 359-369; decodeURIComponent leaves a text without "%" as it is
DirectResult(url) ==
    [ id           |-> <<"d","i","r","e","c","t","_","f","i","l","e">>,
      title        |-> IF LastSegment(url) # Empty THEN LastSegment(url)
                       ELSE <<"U+672A","U+547D","U+540D","U+89C6","U+9891">>,
      platform     |-> "direct",
      playerType   |-> "native",
      thumbnailUrl |-> Undefined,
      duration     |-> Undefined,
      description  |-> Undefined,
      sources      |-> << VideoSource(url, "Original", "Source", "Unknown", TRUE) >> ]

Resolved(rec, result) ==
    [rec EXCEPT !.pc = "done", !.outcome = "resolved", !.result = result]

Rejected(rec) ==
    [rec EXCEPT !.pc = "done", !.outcome = "rejected", !.result = Null]

\* lines 338-372: YouTube, then direct file, then "Format not supported"
ClassifyRest(rec) ==
    LET videoId == YTMatch(rec.url)
    IN  IF videoId # Empty THEN Resolved(rec, YouTubeResult(videoId))
        ELSE IF DirectMatch(rec.url) THEN Resolved(rec, DirectResult(rec.url))
        ELSE Rejected(rec)

\* lines 232-239 with the av pattern asked first
ExtractIdsAvFirst(rec) ==
    IF rec.bvid # Empty THEN rec
    ELSE IF AVMatch(rec.url) # Empty THEN [rec EXCEPT !.avid = AVMatch(rec.url)]
    ELSE IF BVMatch(rec.url) # Empty THEN [rec EXCEPT !.bvid = BVMatch(rec.url)]
    ELSE rec

\* lines 232-239: step 2, the identifiers
ExtractIds(rec) ==
    IF rec.bvid # Empty THEN rec
    ELSE LET bvMatch == BVMatch(rec.url)
             avMatch == AVMatch(rec.url)
         IN  IF bvMatch # Empty THEN [rec EXCEPT !.bvid = bvMatch]
             ELSE IF avMatch # Empty THEN [rec EXCEPT !.avid = avMatch]
             ELSE rec

\* the YouTube pattern asked before the Bilibili identifiers
ClassifyYouTubeFirst(rec) ==
    IF YTMatch(rec.url) # Empty THEN Resolved(rec, YouTubeResult(YTMatch(rec.url)))
    ELSE LET ids == ExtractIds(rec)
         IN  IF ids.bvid # Empty \/ ids.avid # Empty
             THEN [ids EXCEPT !.pc = "meta", !.metaReq = MetaRequest(ids)]
             ELSE ClassifyRest(ids)

\* lines 232-241 and on: after step 1, run to the next await (the metadata
\* fetch) or to the end of the function
Classify(rec) ==
    LET ids == ExtractIds(rec)
    IN  IF ids.bvid # Empty \/ ids.avid # Empty
        THEN [ids EXCEPT !.pc = "meta", !.metaReq = MetaRequest(ids)]
        ELSE ClassifyRest(ids)

\* lines 198-207: from the call to the first await
StartParse(rec, input) ==
    LET r0 == [rec EXCEPT !.input = input, !.url = trim(input)]
    IN  IF includes(r0.url, <<"b","2","3",".","t","v">>)
        THEN [r0 EXCEPT !.pc = "shortlink", !.shortReq = ProxyUrl(PROXY_JSON, r0.url)]
        ELSE Classify(r0)

\* lines 208-229: the body of the try of step 1, given the proxy's answer
ResolveShortLink(rec, resp) ==
    IF resp.kind # "object" THEN rec                  \* caught (line 227)
    ELSE IF Truthy(resp.statusUrl) /\ ~includes(resp.statusUrl, <<"b","2","3",".","t","v">>)
        THEN [rec EXCEPT !.url = resp.statusUrl]
    ELSE IF Truthy(resp.contents)
        THEN LET c  == resp.contents
                 st == {i \in 1..Len(c) :
                          /\ \/ LitAt(c, i, <<"h","t","t","p",":","/","/">>)
                             \/ LitAt(c, i, <<"h","t","t","p","s",":","/","/">>)
                          /\ LET h == IF LitAt(c, i, <<"h","t","t","p","s",":","/","/">>) THEN i + 8 ELSE i + 7
                             IN  /\ \/ LitAt(c, h, <<"w","w","w",".","b","i","l","i","b","i","l","i",".","c","o","m","/","v","i","d","e","o","/">>)
                                    \/ LitAt(c, h, <<"m",".","b","i","l","i","b","i","l","i",".","c","o","m","/","v","i","d","e","o","/">>)
                                 /\ LET b == IF LitAt(c, h, <<"w","w","w",".">>) THEN h + 23 ELSE h + 21
                                    IN  /\ LitAt(c, b, <<"B","V">>)
                                        /\ AllIn(c, b + 2, b + 1 + BVIdLen, Alnum)}
                 i0 == Min(st)
                 b0 == Min({b \in i0..Len(c) : LitAt(c, b, <<"B","V">>)})
             IN  IF st # {}
                 THEN [rec EXCEPT !.url = SubSeq(c, i0, b0 + 1 + BVIdLen),
                                  !.bvid = SubSeq(c, b0, b0 + 1 + BVIdLen)]
                 ELSE [rec EXCEPT !.bvid = BVMatch(c)]
    ELSE rec

MetaDataOfAnyCode(resp) ==
    IF resp.kind = "object" THEN resp.data
    ELSE MetaObject(Undefined, Undefined, Undefined, 0)

\* lines 243-254: metaData after the metadata request
MetaDataOf(resp) ==
    IF resp.kind = "object" /\ StrictEqZero(resp.code) THEN resp.data
    ELSE MetaObject(Undefined, Undefined, Undefined, 0)

\* lines 257-286: directUrl after the stream request ('' with parseError)
DirectUrlOf(resp) ==
    IF resp.kind = "object" /\ StrictEqZero(resp.code) /\ Truthy(resp.url)
    THEN resp.url ELSE Empty

\* lines 288-335: the result assembler. metaData.title of an undefined or
\* null metaData throws a TypeError outside every try: the promise rejects.
Assemble(rec, directUrl) ==
    IF rec.metaData \in {DataMissing, DataNull} THEN Rejected(rec)
    ELSE IF directUrl # Empty THEN Resolved(rec, NativeResult(rec, directUrl))
    ELSE Resolved(rec, IframeResult(rec))

\* ------------------------------------------------------------------------
\* App (App.tsx)

\* lines 40-46
DemoData ==
    [ id           |-> <<"d","e","m","o","_","1","2","3">>,
      title        |-> <<"U+6F14","U+793A","U+89C6","U+9891",":"," ","B","i","g"," ","B","u","c","k"," ","B","u","n","n","y"," ","(","1","0","8","0","P"," ","H","i","g","h"," ","Q","u","a","l","i","t","y",")">>,
      platform     |-> "direct",
      playerType   |-> "native",
      thumbnailUrl |-> Undefined,
      duration     |-> Undefined,
      description  |-> Undefined,
      sources      |-> << VideoSource(<< "DEMO_VIDEO_URL" >>, "MP4", "1080P", "24MB", TRUE) >> ]

\* lines 35-51: data, status and errorMsg once parseVideoInput has settled,
\* from what they were (app); unchanged while the request is pending
AppState(d, s, e) == [data |-> d, status |-> s, errorMsg |-> e]

SettledAppSilent(rec, app) ==
    IF rec.pc # "done" THEN app
    ELSE IF rec.outcome = "resolved" THEN AppState(rec.result, "SUCCESS", app.errorMsg)
    ELSE IF includes(rec.input, <<"d","e","m","o">>) THEN AppState(DemoData, "SUCCESS", app.errorMsg)
    ELSE AppState(app.data, "ERROR", app.errorMsg)

SettledApp(rec, app) ==
    IF rec.pc # "done" THEN app
    ELSE IF rec.outcome = "resolved" THEN AppState(rec.result, "SUCCESS", app.errorMsg)
    ELSE IF includes(rec.input, <<"d","e","m","o">>) THEN AppState(DemoData, "SUCCESS", app.errorMsg)
    ELSE AppState(app.data, "ERROR", UnsupportedMsg)

\* the continuation of handleParse after its await (lines 34-52)
Settle(rec) ==
    LET app == SettledApp(rec, AppState(data, status, errorMsg))
    IN  data' = app.data /\ status' = app.status /\ errorMsg' = app.errorMsg

\* line 141: typing into the input box
SetInput(text) ==
    /\ inputUrl' = text
    /\ UNCHANGED <<status, data, errorMsg, req>>
    /\ UNCHANGED <<durationVars, downloadVars, playerVars>>

\* lines 26-53: handleParse, run to parseVideoInput's first await, or to the
\* end when parseVideoInput settles without awaiting a request
HandleParse(r) ==
    /\ req[r].pc \in {"idle", "done"}
    /\ IF trim(inputUrl) = Empty
       THEN /\ req' = [req EXCEPT ![r] =
                         [IdleRequest EXCEPT !.pc = "done", !.input = inputUrl,
                                             !.outcome = "ignored"]]
            /\ UNCHANGED <<status, data, errorMsg>>
       ELSE LET rec == StartParse(IdleRequest, inputUrl)
                app == SettledApp(rec, AppState(Null, "PARSING", ""))
            IN  /\ req' = [req EXCEPT ![r] = rec]
                /\ data' = app.data /\ status' = app.status /\ errorMsg' = app.errorMsg
    /\ UNCHANGED <<inputUrl, durationVars, downloadVars, playerVars>>

ShortLinkResponseThrows(r, resp) ==
    /\ req[r].pc = "shortlink"
    /\ LET rec == IF resp.kind # "object"
                  THEN Rejected([req[r] EXCEPT !.shortResp = resp])
                  ELSE Classify(ResolveShortLink([req[r] EXCEPT !.shortResp = resp], resp))
       IN  /\ req' = [req EXCEPT ![r] = rec]
           /\ Settle(rec)
    /\ UNCHANGED <<inputUrl, durationVars, downloadVars, playerVars>>

\* the short-link request settles (lines 207-229), and the function runs on
ShortLinkResponse(r, resp) ==
    /\ req[r].pc = "shortlink"
    /\ LET rec == Classify(ResolveShortLink([req[r] EXCEPT !.shortResp = resp], resp))
       IN  /\ req' = [req EXCEPT ![r] = rec]
           /\ Settle(rec)
    /\ UNCHANGED <<inputUrl, durationVars, downloadVars, playerVars>>

MetadataResponseAssembles(r, resp) ==
    /\ req[r].pc = "meta"
    /\ LET rec == Assemble([req[r] EXCEPT !.metaResp = resp,
                                          !.metaData = MetaDataOf(resp)], Empty)
       IN  /\ req' = [req EXCEPT ![r] = rec]
           /\ Settle(rec)
    /\ UNCHANGED <<inputUrl, durationVars, downloadVars, playerVars>>

\* the metadata request settles (lines 247-254); the stream request is issued
MetadataResponse(r, resp) ==
    /\ req[r].pc = "meta"
    /\ req' = [req EXCEPT ![r] = [req[r] EXCEPT !.metaResp = resp,
                                                !.metaData = MetaDataOf(resp),
                                                !.streamReq = StreamRequest(req[r]),
                                                !.pc = "stream"]]
    /\ UNCHANGED <<inputUrl, status, data, errorMsg, durationVars, downloadVars, playerVars>>

\* the stream request settles (lines 266-286), the result is assembled
StreamResponse(r, resp) ==
    /\ req[r].pc = "stream"
    /\ LET rec == Assemble([req[r] EXCEPT !.streamResp = resp], DirectUrlOf(resp))
       IN  /\ req' = [req EXCEPT ![r] = rec]
           /\ Settle(rec)
    /\ UNCHANGED <<inputUrl, durationVars, downloadVars, playerVars>>

\* ------------------------------------------------------------------------
\* formatDuration applied to a drawn argument

MaxSeconds == 6125

FormatStep ==
    /\ formatted = Undefined
    /\ formatted' = formatDuration(seconds)
    /\ UNCHANGED <<seconds, parseVars, playerVars, downloadVars>>

\* ------------------------------------------------------------------------
\* VideoPlayer (components/VideoPlayer.tsx): the buffering transfer
\*
\* A transfer is one run of fetchVideo.  It is suspended at an await (the
\* fetch, or a reader.read()) between two steps; each step below runs it from
\* one await to the next.  The effect runs with the change of url/playerType.
\*
\* When the cleanup runs, the await of the transfer is either still pending
\* (abort() makes it reject with AbortError) or has settled already, its
\* continuation not yet run (late): that continuation then runs after the
\* cleanup and the new effect, with isAborted true, and the await after it
\* rejects.  Either way the abandoned transfer returns before any other event.

PlayerUrls ==
    { <<"h","t","t","p","s",":","/","/","c","d","n",".","e","x","a","m","p","l","e",".","c","o","m","/","a",".","m","p","4">>, <<"h","t","t","p","s",":","/","/","c","d","n",".","e","x","a","m","p","l","e",".","c","o","m","/","b",".","m","p","4","?","x","=","1">> }

PlayerTypes == {"native", "iframe"}

MaxTransfers == 2

MaxChunkLen == 2

MaxLoaded == 4

\* value.length of the chunks, and the content-length values (0: no header, or
\* a header of 0); a body can be longer or shorter than its content-length
ChunkLens == 0..MaxChunkLen

ContentLengths == {0, 1, 3}

\* downloadProgress is a number: kept as an exact fraction n/d in lowest terms
RECURSIVE Gcd(_, _)
Gcd(a, b) == IF b = 0 THEN a ELSE Gcd(b, a % b)

Frac(n, d) == [n |-> n \div Gcd(n, d), d |-> d \div Gcd(n, d)]

Whole(k) == [n |-> k, d |-> 1]

FracLeq(a, b) == a.n * b.d <= b.n * a.d

\* Math.round
Round(f) == (2 * f.n + f.d) \div (2 * f.d)

\* no write to downloadProgress yet (below every progress value)
NoWrite == [n |-> -1, d |-> 1]

\* blobUrl: null, or the object URL minted by transfer i
NoBlob == [blob |-> 0]

ObjectUrlOf(i) == [blob |-> i]

\* the src of the <video>: an object URL, a network URL, or undefined
SrcBlob(b) == [blob |-> b.blob, url |-> Empty]

SrcUrl(u) == [blob |-> 0, url |-> u]

NoSrc == [blob |-> 0, url |-> Empty]

\* capturedImage: null, or the data URL of a frame of the source src
NoImage == [frame |-> NoSrc]

FrameOf(src) == [frame |-> src]

ProgressOfUncapped(loaded, total) ==
    IF loaded >= total THEN Whole(100) ELSE Frac(loaded * 100, total)

\* Math.min((loaded / total) * 100, 99)
ProgressOf(loaded, total) ==
    IF loaded * 100 >= 99 * total THEN Whole(99) ELSE Frac(loaded * 100, total)

FetchResponses ==
    { [kind |-> k, total |-> 0] : k \in {"neterr", "notok", "nobody"} }
        \cup { [kind |-> "ok", total |-> n] : n \in ContentLengths }

NewTransfer(u) ==
    [url |-> u, pc |-> "fetching", total |-> 0, loaded |-> 0,
     isAborted |-> FALSE, late |-> FALSE, gone |-> FALSE, lastWrite |-> NoWrite]

InFlight(tr) == tr.pc \in {"fetching", "reading"}

\* no aborted transfer is still to return: its continuation or its rejection
\* is queued by the cleanup, and runs before any later event (a response, a
\* chunk, a click, a change of props) is handled; and no alert() is open
\* (it blocks the page until it is closed)
Quiet ==
    /\ ~notice
    /\ \A i \in DOMAIN transfers : ~(InFlight(transfers[i]) /\ transfers[i].isAborted)

\* the transfer's next step may run: its await is not cut by abort()
Runs(tr) == tr.late \/ (~tr.isAborted /\ Quiet)

\* the locals of a transfer that writes no progress any more (it has returned,
\* its await rejects with AbortError, or its component is unmounted) are not
\* read again
Forgotten(tr) ==
    [tr EXCEPT !.total = 0, !.loaded = 0, !.lastWrite = NoWrite, !.url = Empty]

\* fetchVideo has returned: its locals are gone
Ended(tr, pc) ==
    [tr EXCEPT !.pc = pc, !.total = 0, !.loaded = 0, !.late = FALSE, !.gone = FALSE,
               !.url = IF pc = "done" /\ ~tr.isAborted THEN @ ELSE Empty,
               !.lastWrite = IF pc = "done" /\ ~tr.isAborted THEN @ ELSE NoWrite]

\* const activeSrc / const showLoadingOverlay
activeSrc ==
    IF blobUrl # NoBlob THEN SrcBlob(blobUrl)
    ELSE IF useDirectStream THEN SrcUrl(propUrl) ELSE NoSrc

showLoadingOverlay == isDownloading /\ blobUrl = NoBlob /\ ~useDirectStream

\* videoRef.current: the <video> is rendered for a native player with a source
HasVideo == mounted /\ propPlayerType = "native" /\ activeSrc # NoSrc

\* the cleanup returned by the effect in force: only a native effect returns one
Cleanup(ts, late) ==
    IF mounted /\ propPlayerType = "native"
    THEN [ts EXCEPT ![Len(ts)] =
              IF InFlight(@) /\ late
              THEN [@ EXCEPT !.isAborted = TRUE, !.late = TRUE]
              ELSE Forgotten([@ EXCEPT !.isAborted = TRUE])]
    ELSE ts

\* the component is unmounted: the state setters its transfers still hold do
\* nothing from now on
Detached(ts) ==
    [i \in DOMAIN ts |->
        IF InFlight(ts[i]) THEN Forgotten([ts[i] EXCEPT !.gone = TRUE]) ELSE ts[i]]

RunEffectKeepsFrame(u, t, ts, blob, dl) ==
    /\ isPlaying' = FALSE
    /\ paused' = TRUE
    /\ UNCHANGED <<notice, capturedImage>>
    /\ downloadProgress' = Whole(0)
    /\ useDirectStream' = FALSE
    /\ blobUrl' = NoBlob
    /\ objectUrls' = objectUrls \ {blob}
    /\ IF t = "iframe"
       THEN transfers' = ts /\ isDownloading' = dl
       ELSE transfers' = Append(ts, NewTransfer(u)) /\ isDownloading' = TRUE

\* the effect body for props (u, t), up to the first await of fetchVideo; ts are
\* the transfers after the cleanup, blob and dl the state it was rendered with
RunEffect(u, t, ts, blob, dl) ==
    /\ isPlaying' = FALSE
    /\ capturedImage' = NoImage
    /\ paused' = TRUE
    /\ UNCHANGED notice
    /\ downloadProgress' = Whole(0)
    /\ useDirectStream' = FALSE
    /\ blobUrl' = NoBlob
    /\ objectUrls' = objectUrls \ {blob}
    /\ IF t = "iframe"
       THEN transfers' = ts /\ isDownloading' = dl
       ELSE transfers' = Append(ts, NewTransfer(u)) /\ isDownloading' = TRUE

Mount(u, t) ==
    /\ ~mounted
    /\ Quiet
    /\ t = "native" => Len(transfers) < MaxTransfers
    /\ mounted' = TRUE
    /\ propUrl' = u
    /\ propPlayerType' = t
    /\ RunEffect(u, t, transfers, NoBlob, FALSE)
    /\ UNCHANGED <<parseVars, durationVars, downloadVars>>

ChangeSource(u, t) ==
    /\ mounted
    /\ Quiet
    /\ <<u, t>> # <<propUrl, propPlayerType>>
    /\ t = "native" => Len(transfers) < MaxTransfers
    /\ propUrl' = u
    /\ propPlayerType' = t
    /\ \E late \in BOOLEAN :
           RunEffect(u, t, Cleanup(transfers, late), blobUrl, isDownloading)
    /\ UNCHANGED <<mounted, parseVars, durationVars, downloadVars>>

Unmount ==
    /\ mounted
    /\ Quiet
    /\ mounted' = FALSE
    /\ \E late \in BOOLEAN : transfers' = Detached(Cleanup(transfers, late))
    /\ isPlaying' = FALSE
    /\ capturedImage' = NoImage
    /\ paused' = TRUE
    /\ UNCHANGED <<propUrl, propPlayerType, downloadProgress, isDownloading,
                   blobUrl, useDirectStream, objectUrls, notice>>
    /\ UNCHANGED <<parseVars, durationVars, downloadVars>>

FallbackUnguarded(i) ==
    /\ transfers' = [transfers EXCEPT ![i] = Ended(@, "failed")]
    /\ useDirectStream' = TRUE /\ isDownloading' = FALSE
    /\ UNCHANGED <<downloadProgress, blobUrl, objectUrls>>

FallbackKeepsDownloading(i) ==
    /\ transfers' = [transfers EXCEPT ![i] = Ended(@, "failed")]
    /\ IF ~transfers[i].isAborted
       THEN useDirectStream' = TRUE /\ UNCHANGED isDownloading
       ELSE UNCHANGED <<useDirectStream, isDownloading>>
    /\ UNCHANGED <<downloadProgress, blobUrl, objectUrls>>

\* the catch block for an error that is not an AbortError
Fallback(i) ==
    /\ transfers' = [transfers EXCEPT ![i] = Ended(@, "failed")]
    /\ IF ~transfers[i].isAborted
       THEN useDirectStream' = TRUE /\ isDownloading' = FALSE
       ELSE UNCHANGED <<useDirectStream, isDownloading>>
    /\ UNCHANGED <<downloadProgress, blobUrl, objectUrls>>

\* await fetch(...) has settled
FetchSettles(i, resp) ==
    /\ transfers[i].pc = "fetching"
    /\ Runs(transfers[i])
    /\ IF resp.kind = "ok"
       THEN /\ transfers' = [transfers EXCEPT ![i].pc = "reading",
                                              ![i].total = resp.total,
                                              ![i].late = FALSE]
            /\ UNCHANGED <<downloadProgress, isDownloading, blobUrl,
                           useDirectStream, objectUrls>>
       ELSE Fallback(i)
    /\ UNCHANGED <<mounted, propUrl, propPlayerType, playbackVars>>
    /\ UNCHANGED <<parseVars, durationVars, downloadVars>>

\* await reader.read() gives {done: false, value} with value.length = len
ReadChunk(i, len) ==
    /\ transfers[i].pc = "reading"
    /\ Runs(transfers[i])
    /\ transfers[i].loaded + len <= MaxLoaded
    /\ LET loaded == transfers[i].loaded + len
           total  == transfers[i].total
       IN  IF total > 0 /\ ~transfers[i].gone
           THEN /\ downloadProgress' = ProgressOf(loaded, total)
                /\ transfers' = [transfers EXCEPT
                                   ![i].loaded = loaded,
                                   ![i].late = FALSE,
                                   ![i].lastWrite = ProgressOf(loaded, total)]
           ELSE /\ transfers' = [transfers EXCEPT ![i].loaded = loaded,
                                                   ![i].late = FALSE]
                /\ UNCHANGED downloadProgress
    /\ UNCHANGED <<isDownloading, blobUrl, useDirectStream, objectUrls>>
    /\ UNCHANGED <<mounted, propUrl, propPlayerType, playbackVars>>
    /\ UNCHANGED <<parseVars, durationVars, downloadVars>>

\* await reader.read() gives {done: true}: the blob, its object URL, and the
\* three writes under if (!isAborted)
ReadDone(i) ==
    /\ transfers[i].pc = "reading"
    /\ Runs(transfers[i])
    /\ objectUrls' = objectUrls \cup {ObjectUrlOf(i)}
    /\ IF ~transfers[i].isAborted
       THEN /\ blobUrl' = ObjectUrlOf(i)
            /\ downloadProgress' = Whole(100)
            /\ isDownloading' = FALSE
            /\ paused' = TRUE     \* the <video> loads its new src
            /\ transfers' = [transfers EXCEPT
                               ![i] = Ended([@ EXCEPT !.lastWrite = Whole(100)], "done")]
       ELSE /\ transfers' = [transfers EXCEPT ![i] = Ended(@, "done")]
            /\ UNCHANGED <<blobUrl, downloadProgress, isDownloading, paused>>
    /\ UNCHANGED <<useDirectStream, isPlaying, capturedImage, notice>>
    /\ UNCHANGED <<mounted, propUrl, propPlayerType, parseVars, durationVars, downloadVars>>

\* await reader.read() rejects with a network error
ReadFails(i) ==
    /\ transfers[i].pc = "reading"
    /\ Runs(transfers[i])
    /\ Fallback(i)
    /\ UNCHANGED <<mounted, propUrl, propPlayerType, playbackVars>>
    /\ UNCHANGED <<parseVars, durationVars, downloadVars>>

CancelledEndsDownload(i) ==
    /\ InFlight(transfers[i])
    /\ transfers[i].isAborted
    /\ ~transfers[i].late
    /\ transfers' = [transfers EXCEPT ![i] = Ended(@, "cancelled")]
    /\ isDownloading' = FALSE
    /\ UNCHANGED <<mounted, propUrl, propPlayerType, downloadProgress,
                   blobUrl, useDirectStream, objectUrls>>
    /\ UNCHANGED <<playbackVars, parseVars, durationVars, downloadVars>>

\* the pending fetch or read of an aborted transfer rejects with AbortError
Cancelled(i) ==
    /\ InFlight(transfers[i])
    /\ transfers[i].isAborted
    /\ ~transfers[i].late
    /\ transfers' = [transfers EXCEPT ![i] = Ended(@, "cancelled")]
    /\ UNCHANGED <<mounted, propUrl, propPlayerType, downloadProgress,
                   isDownloading, blobUrl, useDirectStream, objectUrls>>
    /\ UNCHANGED <<playbackVars, parseVars, durationVars, downloadVars>>

skipDownloadKeepsDownloading ==
    /\ mounted
    /\ Quiet
    /\ propPlayerType = "native"
    /\ showLoadingOverlay
    /\ useDirectStream' = TRUE
    /\ UNCHANGED <<mounted, propUrl, propPlayerType, downloadProgress, blobUrl,
                   transfers, objectUrls, isDownloading>>
    /\ UNCHANGED <<playbackVars, parseVars, durationVars, downloadVars>>

\* the button of the loading overlay
skipDownload ==
    /\ mounted
    /\ Quiet
    /\ propPlayerType = "native"
    /\ showLoadingOverlay
    /\ useDirectStream' = TRUE
    /\ isDownloading' = FALSE
    /\ UNCHANGED <<mounted, propUrl, propPlayerType, downloadProgress, blobUrl,
                   transfers, objectUrls>>
    /\ UNCHANGED <<playbackVars, parseVars, durationVars, downloadVars>>

transferVars ==
    <<mounted, propUrl, propPlayerType, downloadProgress, isDownloading, blobUrl,
      useDirectStream, transfers, objectUrls>>

\* the click on the player, or on the play button of the controls
togglePlay ==
    /\ mounted
    /\ Quiet
    /\ propPlayerType = "native"
    /\ HasVideo
    /\ paused' = isPlaying      \* isPlaying ? pause() : play()
    /\ isPlaying' = ~isPlaying
    /\ UNCHANGED <<capturedImage, notice>>
    /\ UNCHANGED <<transferVars, parseVars, durationVars, downloadVars>>

\* the <video> reaches its end while it plays
onEnded ==
    /\ Quiet
    /\ HasVideo
    /\ ~paused
    /\ paused' = TRUE
    /\ isPlaying' = FALSE
    /\ UNCHANGED <<capturedImage, notice>>
    /\ UNCHANGED <<transferVars, parseVars, durationVars, downloadVars>>

captureFramePausesFirst(throws) ==
    /\ mounted
    /\ Quiet
    /\ propPlayerType = "native"
    /\ ~showLoadingOverlay
    /\ throws => blobUrl = NoBlob
    /\ IF ~HasVideo
       THEN UNCHANGED playbackVars
       ELSE /\ paused' = TRUE
            /\ isPlaying' = IF paused THEN isPlaying ELSE FALSE
            /\ IF throws
               THEN notice' = TRUE /\ UNCHANGED capturedImage
               ELSE capturedImage' = FrameOf(activeSrc) /\ UNCHANGED notice
    /\ UNCHANGED <<transferVars, parseVars, durationVars, downloadVars>>

\* the capture button of the controls; throws: canvas.toDataURL throws (the
\* canvas is tainted by a cross-origin frame: never by a frame of a blob)
captureFrame(throws) ==
    /\ mounted
    /\ Quiet
    /\ propPlayerType = "native"
    /\ ~showLoadingOverlay
    /\ throws => blobUrl = NoBlob
    /\ IF ~HasVideo
       THEN UNCHANGED playbackVars
       ELSE IF throws
       THEN notice' = TRUE /\ UNCHANGED <<capturedImage, isPlaying, paused>>
       ELSE /\ capturedImage' = FrameOf(activeSrc)
            /\ paused' = TRUE
            /\ isPlaying' = IF paused THEN isPlaying ELSE FALSE
            /\ UNCHANGED notice
    /\ UNCHANGED <<transferVars, parseVars, durationVars, downloadVars>>

\* the close button of the preview
closePreview ==
    /\ mounted
    /\ Quiet
    /\ capturedImage # NoImage
    /\ capturedImage' = NoImage
    /\ UNCHANGED <<isPlaying, paused, notice>>
    /\ UNCHANGED <<transferVars, parseVars, durationVars, downloadVars>>

\* the user closes the alert(): captureFrame returns
CloseNotice ==
    /\ notice
    /\ notice' = FALSE
    /\ UNCHANGED <<isPlaying, capturedImage, paused>>
    /\ UNCHANGED <<transferVars, parseVars, durationVars, downloadVars>>


\* ------------------------------------------------------------------------
\* App.forceDownload (App.tsx lines 59-84)
\*
\* A call is suspended at await fetch(url) and at await response.blob().

MaxDownloads == 3

\* downloadingUrl: null
NoDownload == Undefined

\* texts that parseVideoInput resolves without a request
DownloadInputs ==
    { <<"h","t","t","p","s",":","/","/","e","x","a","m","p","l","e",".","c","o","m","/","v","i","d","e","o",".","M","P","4">>,
      <<"h","t","t","p","s",":","/","/","y","o","u","t","u",".","b","e","/","d","Q","w","4","w","9","W","g","X","c","Q">> }

DownloadFetchKinds == {"neterr", "notok", "ok"}

Pending(call) == call.pc \in {"fetching", "blob"}

forceDownloadOpensToo(url, filename) ==
    /\ Len(downloads) < MaxDownloads
    /\ IF downloadingUrl # NoDownload
       THEN /\ downloads' = Append(downloads,
                                   [url |-> url, filename |-> filename, pc |-> "ignored"])
            /\ UNCHANGED <<downloadingUrl, openedTabs>>
       ELSE /\ downloadingUrl' = url
            /\ openedTabs' = Append(openedTabs, url)
            /\ downloads' = Append(downloads,
                                   [url |-> url, filename |-> filename, pc |-> "fetching"])
    /\ UNCHANGED savedFiles
    /\ UNCHANGED <<parseVars, durationVars, playerVars>>

\* lines 59-64: the call, up to await fetch
forceDownload(url, filename) ==
    /\ Len(downloads) < MaxDownloads
    /\ IF downloadingUrl # NoDownload
       THEN /\ downloads' = Append(downloads,
                                   [url |-> url, filename |-> filename, pc |-> "ignored"])
            /\ UNCHANGED downloadingUrl
       ELSE /\ downloadingUrl' = url
            /\ downloads' = Append(downloads,
                                   [url |-> url, filename |-> filename, pc |-> "fetching"])
    /\ UNCHANGED <<savedFiles, openedTabs>>
    /\ UNCHANGED <<parseVars, durationVars, playerVars>>

\* lines 253-257: the button of a downloadable source of the result shown,
\* disabled while that source is the one being downloaded
ClickDownload ==
    /\ status = "SUCCESS"
    /\ data # Null
    /\ \E k \in DOMAIN data.sources :
           /\ data.sources[k].isDownloadable
           /\ downloadingUrl # data.sources[k].url
           /\ forceDownload(data.sources[k].url, data.title \o <<".","m","p","4">>)

\* lines 79-83: catch and finally
OpenInNewTab(i) ==
    /\ openedTabs' = Append(openedTabs, downloads[i].url)
    /\ downloads' = [downloads EXCEPT ![i].pc = "opened"]
    /\ downloadingUrl' = NoDownload
    /\ UNCHANGED savedFiles

\* await fetch(url) has settled (lines 64-67)
DownloadFetchSettles(i, kind) ==
    /\ downloads[i].pc = "fetching"
    /\ IF kind = "ok"
       THEN /\ downloads' = [downloads EXCEPT ![i].pc = "blob"]
            /\ UNCHANGED <<downloadingUrl, savedFiles, openedTabs>>
       ELSE OpenInNewTab(i)
    /\ UNCHANGED <<parseVars, durationVars, playerVars>>

\* await response.blob() has settled (lines 67-83): the link is clicked with
\* the object URL and the file name; filename is never empty here
DownloadBlobSettles(i, ok) ==
    /\ downloads[i].pc = "blob"
    /\ IF ok
       THEN /\ savedFiles' = Append(savedFiles, downloads[i].filename)
            /\ downloads' = [downloads EXCEPT ![i].pc = "saved"]
            /\ downloadingUrl' = NoDownload
            /\ UNCHANGED openedTabs
       ELSE OpenInNewTab(i)
    /\ UNCHANGED <<parseVars, durationVars, playerVars>>

\* line 78: setTimeout(() => URL.revokeObjectURL(blobUrl), 1000)
RevokeTimer(i) ==
    /\ downloads[i].pc = "saved"
    /\ downloads' = [downloads EXCEPT ![i].pc = "revoked"]
    /\ UNCHANGED <<downloadingUrl, savedFiles, openedTabs>>
    /\ UNCHANGED <<parseVars, durationVars, playerVars>>

\* ------------------------------------------------------------------------
\* Initial states

Slots == {1}

InitApp ==
    /\ inputUrl = Empty
    /\ status = "IDLE"
    /\ data = Null
    /\ errorMsg = ""
    /\ req = [r \in Slots |-> IdleRequest]

InitPlayer ==
    /\ mounted = FALSE
    /\ propUrl = Empty
    /\ propPlayerType = "none"
    /\ downloadProgress = Whole(0)
    /\ isDownloading = FALSE
    /\ blobUrl = NoBlob
    /\ useDirectStream = FALSE
    /\ transfers = << >>
    /\ objectUrls = {}
    /\ isPlaying = FALSE
    /\ capturedImage = NoImage
    /\ paused = TRUE
    /\ notice = FALSE

InitDownload ==
    /\ downloadingUrl = NoDownload
    /\ downloads = << >>
    /\ savedFiles = << >>
    /\ openedTabs = << >>

Init ==
    /\ InitApp
    /\ InitPlayer
    /\ InitDownload
    /\ seconds = 0
    /\ formatted = Undefined

InitDuration ==
    /\ InitApp
    /\ InitPlayer
    /\ InitDownload
    /\ seconds \in 0..MaxSeconds
    /\ formatted = Undefined

\* ------------------------------------------------------------------------
\* Spec: one parse request at a time; the user types a text once and submits
\* it any number of times

TypeInput == inputUrl = Empty /\ status = "IDLE" /\ \E t \in Inputs : SetInput(t)

Submit == \E r \in DOMAIN req : HandleParse(r)

ShortLinkSettles == \E r \in DOMAIN req : \E resp \in ShortLinkResponses : ShortLinkResponse(r, resp)

MetadataSettles == \E r \in DOMAIN req : \E resp \in MetadataResponses : MetadataResponse(r, resp)

StreamSettles == \E r \in DOMAIN req : \E resp \in StreamResponses : StreamResponse(r, resp)

Next ==
    \/ TypeInput
    \/ Submit
    \/ ShortLinkSettles
    \/ MetadataSettles
    \/ StreamSettles

Spec == Init /\ [][Next]_vars

\* SpecDuration: formatDuration applied to every argument up to MaxSeconds

NextDuration == FormatStep

SpecDuration == InitDuration /\ [][NextDuration]_vars

\* SpecPlayer: the player mounted, given sources, and its transfers stepping

Mounts == \E u \in PlayerUrls : \E t \in PlayerTypes : Mount(u, t)

SourceChanges == \E u \in PlayerUrls : \E t \in PlayerTypes : ChangeSource(u, t)

FetchAnswers == \E i \in DOMAIN transfers : \E resp \in FetchResponses : FetchSettles(i, resp)

ChunkArrives == \E i \in DOMAIN transfers : \E len \in ChunkLens : ReadChunk(i, len)

BodyEnds == \E i \in DOMAIN transfers : ReadDone(i)

BodyBreaks == \E i \in DOMAIN transfers : ReadFails(i)

AbortLands == \E i \in DOMAIN transfers : Cancelled(i)

Captures == \E throws \in BOOLEAN : captureFrame(throws)

NextPlayer ==
    \/ Mounts
    \/ SourceChanges
    \/ Unmount
    \/ FetchAnswers
    \/ ChunkArrives
    \/ BodyEnds
    \/ BodyBreaks
    \/ AbortLands
    \/ skipDownload
    \/ togglePlay
    \/ onEnded
    \/ Captures
    \/ closePreview
    \/ CloseNotice

SpecPlayer == Init /\ [][NextPlayer]_vars

\* SpecDownload: results that need no request are parsed, their downloadable
\* sources are downloaded

TypeDownloadInput == \E t \in DownloadInputs : SetInput(t)

DownloadFetched ==
    \E i \in DOMAIN downloads : \E kind \in DownloadFetchKinds : DownloadFetchSettles(i, kind)

DownloadBlobbed == \E i \in DOMAIN downloads : \E ok \in BOOLEAN : DownloadBlobSettles(i, ok)

RevokeTimers == \E i \in DOMAIN downloads : RevokeTimer(i)

NextDownload ==
    \/ TypeDownloadInput
    \/ Submit
    \/ ClickDownload
    \/ DownloadFetched
    \/ DownloadBlobbed
    \/ RevokeTimers

SpecDownload == Init /\ [][NextDownload]_vars


\* SpecRace: handleParse called again while earlier calls are pending. The
\* button is disabled while status is PARSING (line 146); the Enter key of the
\* input box is not (line 142). Each call takes the next slot of req.

MaxRequests == 2

InitRace ==
    /\ inputUrl = Empty
    /\ status = "IDLE"
    /\ data = Null
    /\ errorMsg = ""
    /\ req = [r \in 1..MaxRequests |-> IdleRequest]
    /\ InitPlayer
    /\ InitDownload
    /\ seconds = 0
    /\ formatted = Undefined

RaceInputs ==
    { <<"B","V","1","G","J","4","1","1","x","7","h","7">>, <<"h","t","t","p","s",":","/","/","y","o","u","t","u",".","b","e","/","d","Q","w","4","w","9","W","g","X","c","Q">>, <<"h","t","t","p","s",":","/","/","b","2","3",".","t","v","/","a","b","c","1","2","3">>,
      <<"n","o","t"," ","a"," ","v","i","d","e","o">> }

RaceShortLinkResponses ==
    {resp \in ShortLinkResponses :
        resp.kind = "neterr" \/ (Truthy(resp.statusUrl) /\ BVMatch(resp.statusUrl) # Empty)}

RaceMetadataResponses ==
    {resp \in MetadataResponses :
        \/ resp.kind = "neterr"
        \/ StrictEqZero(resp.code) /\ resp.data = MetaObject(<<"T","i","t","l","e">>, <<"/","/","i","0",".","h","d","s","l","b",".","c","o","m","/","c",".","j","p","g">>, <<"d","e","s","c">>, 125)}

RaceStreamResponses ==
    {resp \in StreamResponses : resp.kind = "neterr" \/ DirectUrlOf(resp) # Empty}

\* the calls made so far, and the slot of the next one
Called == {r \in DOMAIN req : req[r].pc # "idle"}

NextSlot == Min(DOMAIN req \ Called)

TypeRaceInput == \E t \in RaceInputs : inputUrl # t /\ SetInput(t)

\* line 142
PressEnter == Called # DOMAIN req /\ HandleParse(NextSlot)

\* lines 145-147
ClickParse == status # "PARSING" /\ Called # DOMAIN req /\ HandleParse(NextSlot)

RaceShortLinkSettles ==
    \E r \in DOMAIN req : \E resp \in RaceShortLinkResponses : ShortLinkResponse(r, resp)

RaceMetadataSettles ==
    \E r \in DOMAIN req : \E resp \in RaceMetadataResponses : MetadataResponse(r, resp)

RaceStreamSettles ==
    \E r \in DOMAIN req : \E resp \in RaceStreamResponses : StreamResponse(r, resp)

NextRace ==
    \/ TypeRaceInput
    \/ PressEnter
    \/ ClickParse
    \/ RaceShortLinkSettles
    \/ RaceMetadataSettles
    \/ RaceStreamSettles

SpecRace == InitRace /\ [][NextRace]_vars
\* ------------------------------------------------------------------------
\* Properties of the parse pipeline

\* the stream body parsed as JSON with code exactly 0 and a non-empty url
StreamOk(resp) ==
    /\ resp.kind = "object"
    /\ resp.code = Num(0)
    /\ resp.url \notin {Empty, Undefined}

\* a request that ran the Bilibili branch to its end
BilibiliDone(rec) == rec.pc = "done" /\ rec.streamResp # NoResponse

Returned(rec) == rec.pc = "done" /\ rec.outcome = "resolved"

\* C1: for a Bilibili identifier, parseVideoInput returns playerType 'native'
\* if and only if the stream response is JSON with code exactly 0 and a
\* non-empty url, and the result then has exactly one source, that url,
\* downloadable.
C1_NativeIffStreamOk ==
    \A r \in DOMAIN req :
        BilibiliDone(req[r]) =>
            /\ (Returned(req[r]) /\ req[r].result.playerType = "native")
                   <=> StreamOk(req[r].streamResp)
            /\ StreamOk(req[r].streamResp) =>
                   /\ Returned(req[r])
                   /\ Len(req[r].result.sources) = 1
                   /\ req[r].result.sources[1].url = req[r].streamResp.url
                   /\ req[r].result.sources[1].isDownloadable

\* C2: for a Bilibili identifier whose stream resolution fails,
\* parseVideoInput still resolves, with playerType 'iframe' and exactly one
\* source: not downloadable, the embed URL of the same identifier with
\* high_quality=1 and danmaku=0.
C2_IframeOnStreamFailure ==
    \A r \in DOMAIN req :
        (BilibiliDone(req[r]) /\ ~StreamOk(req[r].streamResp)) =>
            /\ Returned(req[r])
            /\ req[r].result.playerType = "iframe"
            /\ Len(req[r].result.sources) = 1
            /\ ~req[r].result.sources[1].isDownloadable
            /\ req[r].result.sources[1].url \in
                   { <<"/","/","p","l","a","y","e","r",".","b","i","l","i","b","i","l","i",".","c","o","m","/","p","l","a","y","e","r",".","h","t","m","l","?","b","v","i","d","=">> \o req[r].bvid
                         \o <<"&","h","i","g","h","_","q","u","a","l","i","t","y","=","1","&","d","a","n","m","a","k","u","=","0">>,
                     <<"/","/","p","l","a","y","e","r",".","b","i","l","i","b","i","l","i",".","c","o","m","/","p","l","a","y","e","r",".","h","t","m","l","?","a","i","d","=">> \o req[r].avid
                         \o <<"&","h","i","g","h","_","q","u","a","l","i","t","y","=","1","&","d","a","n","m","a","k","u","=","0">> }

\* the text that is classified (the trimmed input, or the short link's
\* target) matches a Bilibili, YouTube or direct-file pattern, or the short
\* link's page gave an identifier
MatchesBilibili(rec) ==
    rec.bvid # Empty \/ rec.avid # Empty
        \/ BVMatch(rec.url) # Empty \/ AVMatch(rec.url) # Empty

MatchesSomePattern(rec) ==
    MatchesBilibili(rec) \/ YTMatch(rec.url) # Empty \/ DirectMatch(rec.url)

\* C3: parseVideoInput rejects only when the (possibly resolved) input
\* matches none of the Bilibili, YouTube or direct-file patterns: whatever
\* the short-link, metadata and stream requests answer, an input that matches
\* one of them resolves with a result record.
C3_RejectsOnlyUnsupported ==
    \A r \in DOMAIN req :
        (req[r].pc = "done" /\ req[r].outcome = "rejected") => ~MatchesSomePattern(req[r])

\* no short-link marker, no BV id, no av id, no YouTube pattern, no trailing
\* media extension
NoPattern(u) ==
    /\ ~includes(u, <<"b","2","3",".","t","v">>)
    /\ BVMatch(u) = Empty
    /\ AVMatch(u) = Empty
    /\ YTMatch(u) = Empty
    /\ ~DirectMatch(u)

\* the step is handleParse run in slot r
Invoked(r) == req[r].pc \in {"idle", "done"} /\ req'[r] # req[r]

ErrorShown ==
    status' = "ERROR" /\ errorMsg' = UnsupportedMsg /\ data' = Null

\* C4 as stated: handleParse on a non-empty input that matches no supported
\* pattern makes parseVideoInput reject and ends in status ERROR with the
\* supported-formats message and no result data.
C4_UnsupportedEndsInError ==
    [][\A r \in DOMAIN req :
         (Invoked(r) /\ trim(inputUrl) # Empty /\ NoPattern(trim(inputUrl)))
             => (req'[r].outcome = "rejected" /\ ErrorShown)]_vars

\* C4, amended: handleParse on an input that is not blank, matches no
\* supported pattern and does not contain 'demo' makes parseVideoInput reject
\* and leaves status ERROR, the supported-formats message and no result data;
\* when such an input contains 'demo', parseVideoInput rejects too but the app
\* ends in SUCCESS with the built-in demo record.
C4_UnsupportedEndsInErrorUnlessDemo ==
    [][\A r \in DOMAIN req :
         (Invoked(r) /\ trim(inputUrl) # Empty /\ NoPattern(trim(inputUrl)))
             => /\ req'[r].outcome = "rejected"
                /\ IF includes(inputUrl, <<"d","e","m","o">>)
                   THEN status' = "SUCCESS" /\ data' = DemoData /\ errorMsg' = ""
                   ELSE ErrorShown]_vars

C4_Witness ==
    \E r \in DOMAIN req :
        /\ req[r].input = <<"h","e","l","l","o"," ","w","o","r","l","d">>
        /\ req[r].outcome = "rejected"
        /\ status = "ERROR" /\ errorMsg = UnsupportedMsg /\ data = Null

\* inputs by the identifier they contain: the generated Bilibili links, and
\* the other inputs in which a Bilibili pattern stands
BVVectors ==
    BVInputs \cup { [text |-> <<"h","t","t","p","s",":","/","/","c","d","n",".","e","x","a","m","p","l","e",".","c","o","m","/","B","V","1","G","J","4","1","1","x","7","h","7",".","m","p","4">>,
                     id   |-> <<"B","V","1","G","J","4","1","1","x","7","h","7">>] }

AVVectors ==
    AVInputs
        \cup { [text |-> <<"h","t","t","p","s",":","/","/","c","d","n",".","e","x","a","m","p","l","e",".","c","o","m","/","f","a","v","0","1",".","m","p","4">>, id |-> <<"0","1">>] }
        \cup { [text |-> v.text, id |-> <<"1","2","3","4","5","6","7">>] : v \in {w \in YTInputs : w.id = <<"x","a","v","1","2","3","4","5","6","7","_">>} }

\* C5: an input without short-link marker that contains BV + 10 alphanumeric
\* characters is Bilibili with exactly that BV identifier, whatever surrounds
\* it; with no BV identifier but av + digits, the id is that digit string.
C5_BilibiliIdExtracted ==
    \A r \in DOMAIN req :
        /\ \A v \in BVVectors :
               (req[r].input = v.text /\ req[r].pc # "idle") =>
                   /\ req[r].bvid = v.id /\ req[r].avid = Empty
                   /\ req[r].pc \in {"meta", "stream", "done"}
                   /\ Returned(req[r]) =>
                          req[r].result.platform = "bilibili" /\ req[r].result.id = v.id
        /\ \A v \in AVVectors :
               (req[r].input = v.text /\ req[r].pc # "idle") =>
                   /\ req[r].avid = v.id /\ req[r].bvid = Empty
                   /\ req[r].pc \in {"meta", "stream", "done"}
                   /\ Returned(req[r]) =>
                          req[r].result.platform = "bilibili" /\ req[r].result.id = v.id

C5_Witness ==
    \E r \in DOMAIN req :
        /\ req[r].input = <<"/","/","m",".","b","i","l","i","b","i","l","i",".","c","o","m","/","v","i","d","e","o","/","B","V","1","G","J","4","1","1","x","7","h","7","?","p","=","2","&","f","r","o","m","=","a","v","9","9">>
        /\ Returned(req[r])
        /\ req[r].result.id = <<"B","V","1","G","J","4","1","1","x","7","h","7">>

\* C6: for every 11-character YouTube id, watch?v=<id>, youtu.be/<id> and
\* /embed/<id> all give platform 'youtube' with that id.
C6_YouTubeIdExtracted ==
    \A r \in DOMAIN req : \A v \in YTInputs :
        (req[r].input = v.text /\ req[r].pc # "idle") =>
            /\ Returned(req[r])
            /\ req[r].result.platform = "youtube"
            /\ req[r].result.id = v.id

\* the result of a direct file: native, one downloadable source, the url
IsDirectResult(rec, url) ==
    /\ Returned(rec)
    /\ rec.result.platform = "direct"
    /\ rec.result.playerType = "native"
    /\ Len(rec.result.sources) = 1
    /\ rec.result.sources[1].url = url
    /\ rec.result.sources[1].isDownloadable

Submitted(rec) == rec.pc # "idle" /\ rec.outcome # "ignored"

\* the request is past the short-link step: its platform is chosen
Classified(rec) == Submitted(rec) /\ rec.pc # "shortlink"

\* the text ends with ".mp4", ".webm", ".ogg" or ".mov", letter case aside
Letters == <<"a","b","c","d","e","f","g","h","i","j","k","l","m","n","o","p","q","r","s","t","u","v","w","x","y","z">>

Capitals == <<"A","B","C","D","E","F","G","H","I","J","K","L","M","N","O","P","Q","R","S","T","U","V","W","X","Y","Z">>

ToLower(c) ==
    IF \E k \in 1..Len(Capitals) : Capitals[k] = c
    THEN Letters[CHOOSE k \in 1..Len(Capitals) : Capitals[k] = c]
    ELSE c

HasMediaExtension(s) ==
    \E e \in { <<".","m","p","4">>, <<".","w","e","b","m">>, <<".","o","g","g">>, <<".","m","o","v">> } :
        /\ Len(s) >= Len(e)
        /\ \A k \in 1..Len(e) : ToLower(s[Len(s) - Len(e) + k]) = e[k]

PlatformOf(rec) ==
    IF rec.pc \in {"meta", "stream"} \/ rec.streamResp # NoResponse THEN "bilibili"
    ELSE IF rec.outcome = "resolved" THEN rec.result.platform
    ELSE "unsupported"

\* C8: classification is first-match-wins in the order short-link, BV id,
\* av id, YouTube, direct file, unsupported: a text with a Bilibili
\* identifier is never 'youtube' or 'direct', a text with the YouTube pattern
\* and no Bilibili identifier is never 'direct', and one platform is chosen.
C8_FirstMatchWins ==
    \A r \in DOMAIN req :
        Classified(req[r]) =>
            /\ includes(trim(req[r].input), <<"b","2","3",".","t","v">>) <=> req[r].shortResp # NoResponse
            /\ PlatformOf(req[r]) =
                   IF MatchesBilibili(req[r]) THEN "bilibili"
                   ELSE IF YTMatch(req[r].url) # Empty THEN "youtube"
                   ELSE IF DirectMatch(req[r].url) THEN "direct"
                   ELSE "unsupported"
            /\ (BVMatch(req[r].url) # Empty \/ AVMatch(req[r].url) # Empty)
                   => PlatformOf(req[r]) \notin {"youtube", "direct"}
            /\ YTMatch(req[r].url) # Empty => PlatformOf(req[r]) # "direct"

\* a text that matches the YouTube pattern and the extension pattern at once,
\* classified youtube
C8_Witness ==
    \E r \in DOMAIN req :
        /\ req[r].input = <<"h","t","t","p","s",":","/","/","y","o","u","t","u",".","b","e","/","d","Q","w","4","w","9","W","g","X","c","Q","/","x",".","m","p","4">>
        /\ Returned(req[r])
        /\ req[r].result.platform = "youtube"

\* ------------------------------------------------------------------------
\* Properties of formatDuration

DigitVal(c) == CHOOSE d \in 0..9 : DigitChars[d + 1] = c

RECURSIVE NumVal(_)
\* the number a digit string denotes
NumVal(s) ==
    IF s = Empty THEN 0
    ELSE 10 * NumVal(SubSeq(s, 1, Len(s) - 1)) + DigitVal(s[Len(s)])

\* out reads <minutes>:<ss>: one colon, before it the decimal of m without
\* leading zero, after it exactly two digits that denote s
ReadsAs(out, m, s) ==
    LET colons == {i \in 1..Len(out) : out[i] = ":"}
        c      == CHOOSE i \in colons : TRUE
        mins   == SubSeq(out, 1, c - 1)
        secs   == SubSeq(out, c + 1, Len(out))
    IN  /\ Cardinality(colons) = 1
        /\ Len(mins) >= 1
        /\ AllIn(out, 1, c - 1, Digit)
        /\ Len(mins) > 1 => mins[1] # "0"
        /\ NumVal(mins) = m
        /\ Len(secs) = 2
        /\ AllIn(out, c + 1, Len(out), Digit)
        /\ NumVal(secs) = s

\* C9: for every non-negative integer s, formatDuration(s) is the unpadded
\* decimal of floor(s/60), then ':', then s mod 60 as exactly two digits; 125
\* gives "2:05", 59 gives "0:59", 3605 gives "60:05".
C9_DurationFormat ==
    formatted # Undefined =>
        /\ ReadsAs(formatted, seconds \div 60, seconds % 60)
        /\ seconds = 125 => formatted = <<"2",":","0","5">>
        /\ seconds = 59 => formatted = <<"0",":","5","9">>
        /\ seconds = 3605 => formatted = <<"6","0",":","0","5">>

C9_Witness == seconds = 3605 /\ formatted = <<"6","0",":","0","5">>

\* ------------------------------------------------------------------------
\* Properties of the buffering transfer

\* transfer i writes a new value to downloadProgress in this step
Writes(i) ==
    /\ i \in DOMAIN transfers'
    /\ transfers'[i].lastWrite \notin {transfers[i].lastWrite, NoWrite}

\* the transfer of the source the player shows
Current == transfers[Len(transfers)]

\* C10: within one transfer the values written to downloadProgress never
\* decrease, a value written while the body is still being read is at most 99,
\* and 100 is written only by the step in which the reader reports the body
\* fully read; the player shows neither 100 (in the overlay or in the state)
\* nor an in-memory source before the transfer of its source is fully read.
C10_ProgressCappedUntilDone ==
    /\ [](mounted =>
            /\ showLoadingOverlay => Round(downloadProgress) <= 99
            /\ (downloadProgress = Whole(100) \/ blobUrl # NoBlob) =>
                   /\ propPlayerType = "native"
                   /\ Current.pc = "done"
                   /\ Current.url = propUrl
                   /\ blobUrl = ObjectUrlOf(Len(transfers)))
    /\ [][/\ \A i \in DOMAIN transfers :
                Writes(i) =>
                    /\ FracLeq(transfers[i].lastWrite, transfers'[i].lastWrite)
                    /\ downloadProgress' = transfers'[i].lastWrite
                    /\ transfers[i].pc = "reading"
                    /\ transfers'[i].pc = "reading" =>
                           FracLeq(transfers'[i].lastWrite, Whole(99))
                    /\ transfers'[i].lastWrite = Whole(100) <=>
                           transfers'[i].pc = "done"
          /\ downloadProgress' # downloadProgress =>
                \/ downloadProgress' = Whole(0)
                \/ \E i \in DOMAIN transfers :
                       /\ transfers[i].pc = "reading"
                       /\ downloadProgress' = transfers'[i].lastWrite]_vars

\* a transfer whose body was read to its end: 100 shown, the blob in place
C10_Witness ==
    /\ mounted
    /\ transfers # << >>
    /\ Current.pc = "done"
    /\ downloadProgress = Whole(100)
    /\ blobUrl = ObjectUrlOf(Len(transfers))


\* ------------------------------------------------------------------------
\* VideoPlayer: source changes, failures, object URLs

\* transfer i takes a step of its own
Steps(i) == i \in DOMAIN transfers /\ transfers'[i] # transfers[i]

\* transfer i returns in this step, at pc
Returns(i, pc) == Steps(i) /\ InFlight(transfers[i]) /\ transfers'[i].pc = pc

\* C11: a transfer abandoned by the cleanup (source change or unmount) never
\* sets blobUrl and never sets useDirectStream, whenever its completion or its
\* failure runs after the cleanup; a blob handle held by the mounted player is
\* the one of the transfer of the current source, which was not abandoned.
C11_AbandonedTransferIsSilent ==
    /\ [](mounted /\ blobUrl # NoBlob =>
             /\ blobUrl.blob \in DOMAIN transfers
             /\ transfers[blobUrl.blob].url = propUrl
             /\ ~transfers[blobUrl.blob].isAborted)
    /\ [][\A i \in DOMAIN transfers :
             Steps(i) /\ transfers[i].isAborted =>
                 /\ blobUrl' = blobUrl
                 /\ useDirectStream' = useDirectStream]_vars

\* a completion and a failure have both run after the cleanup
C11_Witness ==
    /\ mounted
    /\ \E i, j \in DOMAIN transfers :
           /\ transfers[i].isAborted /\ transfers[i].pc = "done"
           /\ ObjectUrlOf(i) \in objectUrls
           /\ transfers[j].isAborted /\ transfers[j].pc = "failed"
    /\ blobUrl = NoBlob
    /\ ~useDirectStream

\* C12: a transfer of the current source that fails with an error other than
\* an abort (network error, status not OK, no body, read error) leaves
\* useDirectStream true, isDownloading false and the url prop as the active
\* source; a transfer that ends with an AbortError changes no state.
C12_FailureFallsBackToStream ==
    [][\A i \in DOMAIN transfers :
          /\ Returns(i, "failed") /\ ~transfers[i].isAborted =>
                /\ i = Len(transfers) /\ transfers[i].url = propUrl /\ mounted
                /\ useDirectStream'
                /\ ~isDownloading'
                /\ activeSrc' = SrcUrl(propUrl)
                /\ ~showLoadingOverlay'
          /\ Returns(i, "cancelled") =>
                UNCHANGED <<downloadProgress, isDownloading, blobUrl, useDirectStream,
                            objectUrls, playbackVars, mounted, propUrl, propPlayerType>>]_vars

\* the transfer of the current source has failed, an earlier one was cancelled
C12_Witness ==
    /\ mounted
    /\ Len(transfers) = 2
    /\ transfers[1].pc = "cancelled"
    /\ transfers[2].pc = "failed" /\ ~transfers[2].isAborted
    /\ useDirectStream /\ ~isDownloading
    /\ activeSrc = SrcUrl(propUrl)

\* C13: at most one object URL created by the transfers is live, and every
\* object URL created is the current blobUrl or has been revoked.
C13_AtMostOneLiveObjectUrl ==
    /\ Cardinality(objectUrls) <= 1
    /\ objectUrls \subseteq {blobUrl}

\* C14: once the player is unmounted, no object URL remains unrevoked.
C14_UnmountRevokes == ~mounted => objectUrls = {}

\* C15: when a mounted native player is given a new url, in that one step the
\* transfer in flight is aborted, the blob handle held is revoked and cleared,
\* progress is 0, the fallback flag and the captured frame are cleared, and a
\* new transfer for the new url is started (isDownloading true), which has
\* not applied anything yet.
C15_SourceChangeRestarts ==
    [][mounted /\ mounted' /\ propPlayerType = "native" /\ propPlayerType' = "native"
         /\ propUrl' # propUrl =>
             /\ Len(transfers') = Len(transfers) + 1
             /\ transfers'[Len(transfers)].isAborted
             /\ \A i \in DOMAIN transfers : transfers'[i].isAborted
             /\ blobUrl' = NoBlob
             /\ blobUrl \notin objectUrls'
             /\ downloadProgress' = Whole(0)
             /\ ~useDirectStream'
             /\ capturedImage' = NoImage
             /\ ~isPlaying'
             /\ isDownloading'
             /\ showLoadingOverlay'
             /\ transfers'[Len(transfers')] = NewTransfer(propUrl')]_vars

\* the player held the blob of the first url and was given the second: the
\* blob is revoked, the second transfer has started and has applied nothing
C15_Witness ==
    /\ mounted /\ propPlayerType = "native"
    /\ Len(transfers) = 2
    /\ transfers[1].pc = "done" /\ transfers[1].isAborted
    /\ ObjectUrlOf(1) \notin objectUrls
    /\ transfers[2] = NewTransfer(propUrl)
    /\ isDownloading /\ blobUrl = NoBlob /\ downloadProgress = Whole(0)
    /\ capturedImage = NoImage

\* C16: from a downloading state, at any progress value, skipDownload gives in
\* one step useDirectStream true, isDownloading false, the overlay hidden and
\* the url prop as the active source; the transfer is left as it was.
C16_SkipGoesToStream ==
    [][showLoadingOverlay /\ useDirectStream' /\ transfers' = transfers =>
           /\ ~isDownloading'
           /\ ~showLoadingOverlay'
           /\ activeSrc' = SrcUrl(propUrl)
           /\ propUrl' = propUrl
           /\ downloadProgress' = downloadProgress]_vars

\* skipped while the transfer was reading, part of the body loaded
C16_Witness ==
    /\ mounted /\ propPlayerType = "native"
    /\ useDirectStream /\ ~isDownloading /\ blobUrl = NoBlob
    /\ Current.pc = "reading" /\ ~Current.isAborted
    /\ downloadProgress # Whole(0)
    /\ downloadProgress = Current.lastWrite
    /\ activeSrc = SrcUrl(propUrl)

\* ------------------------------------------------------------------------
\* parseVideoInput: YouTube results, absorbed failures

\* no request was issued for the call
NoRequest(rec) ==
    rec.shortResp = NoResponse /\ rec.metaResp = NoResponse /\ rec.streamResp = NoResponse

\* C17: a text with the YouTube pattern, without the short-link marker and
\* without a Bilibili identifier, resolves without any request, with
\* playerType 'iframe' and exactly two sources in this order: the embed URL of
\* the id (not downloadable), then the youtu.be URL of the id (downloadable);
\* the thumbnail URL is built from the same id.
C17_YouTubeResultShape ==
    \A r \in DOMAIN req :
        LET rec == req[r]
            url == trim(rec.input)
        IN  (/\ rec.pc # "idle"
             /\ rec.outcome # "ignored"
             /\ ~includes(url, <<"b","2","3",".","t","v">>)
             /\ BVMatch(url) = Empty /\ AVMatch(url) = Empty
             /\ YTMatch(url) # Empty) =>
                /\ Returned(rec)
                /\ NoRequest(rec)
                /\ rec.result.platform = "youtube"
                /\ rec.result.playerType = "iframe"
                /\ Len(rec.result.id) = YTIdLen
                /\ Len(rec.result.sources) = 2
                /\ rec.result.sources[1].url =
                       <<"h","t","t","p","s",":","/","/","w","w","w",".","y","o","u","t","u","b","e",".","c","o","m","/","e","m","b","e","d","/">> \o rec.result.id
                /\ ~rec.result.sources[1].isDownloadable
                /\ rec.result.sources[2].url = <<"h","t","t","p","s",":","/","/","y","o","u","t","u",".","b","e","/">> \o rec.result.id
                /\ rec.result.sources[2].isDownloadable
                /\ rec.result.thumbnailUrl =
                       <<"h","t","t","p","s",":","/","/","i","m","g",".","y","o","u","t","u","b","e",".","c","o","m","/","v","i","/">> \o rec.result.id
                           \o <<"/","m","a","x","r","e","s","d","e","f","a","u","l","t",".","j","p","g">>

C17_Witness ==
    \E r \in DOMAIN req :
        /\ Returned(req[r])
        /\ NoRequest(req[r])
        /\ req[r].result.platform = "youtube"
        /\ req[r].result.id = <<"d","Q","w","4","w","9","W","g","X","c","Q">>
        /\ status = "SUCCESS"
        /\ data = req[r].result

\* the proxy gave no answer to use: the fetch or response.json() rejected, the
\* body was null, or an object with no status.url and no contents
ShortLinkFailed(resp) ==
    \/ resp.kind \in {"neterr", "badjson", "null"}
    \/ resp.kind = "object" /\ ~Truthy(resp.statusUrl) /\ ~Truthy(resp.contents)

\* C18: when the short-link request fails, no error is raised and no
\* identifier is set by step 1: the function goes on with the trimmed input,
\* and from there on does what it does for that text when step 1 is not run.
C18_ShortLinkFailureAbsorbed ==
    [][\A r \in DOMAIN req :
          (/\ req[r].pc = "shortlink"
           /\ req'[r].pc # "shortlink"
           /\ ShortLinkFailed(req'[r].shortResp)) =>
              LET plain == Classify([IdleRequest EXCEPT !.input = req[r].input,
                                                         !.url = trim(req[r].input)])
              IN  /\ req'[r].url = trim(req[r].input)
                  /\ req'[r] = [plain EXCEPT !.shortResp = req'[r].shortResp,
                                              !.shortReq = req[r].shortReq]
                  /\ plain.outcome # "rejected" => status' # "ERROR"]_vars

\* a short link whose request failed, classified by its own text
C18_Witness ==
    \E r \in DOMAIN req :
        /\ req[r].shortResp.kind = "neterr"
        /\ req[r].input = <<"b","2","3",".","t","v","/","x",".","m","p","4">>
        /\ Returned(req[r])
        /\ req[r].result.platform = "direct"
        /\ req[r].bvid = Empty /\ req[r].avid = Empty
        /\ status = "SUCCESS"

\* the metadata request gave nothing: the fetch or res.json() rejected, or the
\* body has a code that is not 0
MetadataFailed(resp) ==
    \/ resp.kind \in {"neterr", "badjson"}
    \/ resp.kind = "object" /\ resp.code \notin {Num(0), Str0, NoCode}

\* C19: a failed metadata request is absorbed: the call resolves, the title is
\* the placeholder 'Bilibili \u89C6\u9891 (<id>)', thumbnail, description and
\* duration are empty, and playerType and sources are those the stream
\* response alone decides.
C19_MetadataFailureAbsorbed ==
    \A r \in DOMAIN req :
        LET rec == req[r]
        IN  (BilibiliDone(rec) /\ MetadataFailed(rec.metaResp)) =>
                /\ Returned(rec)
                /\ rec.result.title = <<"B","i","l","i","b","i","l","i"," ","U+89C6","U+9891"," ","(">> \o IdOf(rec) \o <<")">>
                /\ rec.result.thumbnailUrl = Empty
                /\ rec.result.description = Empty
                /\ rec.result.duration = Empty
                /\ Len(rec.result.sources) = 1
                /\ IF StreamOk(rec.streamResp)
                   THEN /\ rec.result.playerType = "native"
                        /\ rec.result.sources[1].url = rec.streamResp.url
                        /\ rec.result.sources[1].isDownloadable
                   ELSE /\ rec.result.playerType = "iframe"
                        /\ rec.result.sources[1].url =
                               <<"/","/","p","l","a","y","e","r",".","b","i","l","i","b","i","l","i",".","c","o","m","/","p","l","a","y","e","r",".","h","t","m","l","?">> \o EmbedIdParam(rec)
                                   \o <<"&","h","i","g","h","_","q","u","a","l","i","t","y","=","1","&","d","a","n","m","a","k","u","=","0">>
                        /\ ~rec.result.sources[1].isDownloadable

\* the metadata body had a code other than 0, the stream request succeeded
C19_Witness ==
    \E r \in DOMAIN req :
        /\ BilibiliDone(req[r])
        /\ req[r].metaResp.kind = "object"
        /\ req[r].metaResp.code = Num(-400)
        /\ StreamOk(req[r].streamResp)
        /\ Returned(req[r])
        /\ req[r].result.playerType = "native"
        /\ req[r].result.thumbnailUrl = Empty

\* ------------------------------------------------------------------------
\* VideoPlayer: captureFrame

\* C20: when the pixel extraction of captureFrame throws, the handler catches
\* it and shows the notice: capturedImage keeps its value, isPlaying is
\* unchanged, the <video> is not paused, nothing else changes, and the
\* player goes on once the notice is closed.
C20_CaptureFailureIsCaught ==
    /\ [][captureFrame(TRUE) /\ HasVideo => notice']_vars
    /\ [][notice' /\ ~notice =>
             /\ HasVideo /\ blobUrl = NoBlob
             /\ UNCHANGED <<capturedImage, isPlaying, paused>>
             /\ UNCHANGED transferVars]_vars
    /\ [][notice /\ ~notice' =>
             UNCHANGED <<capturedImage, isPlaying, paused, transferVars>>]_vars

\* the notice is open over a playing video, an earlier frame still shown
C20_Witness ==
    /\ notice
    /\ mounted /\ useDirectStream
    /\ isPlaying /\ ~paused
    /\ capturedImage = FrameOf(SrcUrl(propUrl))

\* ------------------------------------------------------------------------
\* App.forceDownload

\* the calls of forceDownload whose pc is in pcs
CallsAt(pcs) == {i \in DOMAIN downloads : downloads[i].pc \in pcs}

\* C21: every call of forceDownload that starts ends with exactly one of: the
\* file handed to the browser to save, or (the fetch or the body failed) the
\* url opened in a new tab; either way downloadingUrl is null again; while
\* downloadingUrl is set a further call does nothing.
C21_ForceDownloadOutcome ==
    /\ [](/\ Cardinality(CallsAt({"fetching", "blob"})) <= 1
          /\ downloadingUrl # NoDownload <=> CallsAt({"fetching", "blob"}) # {}
          /\ \A i \in CallsAt({"fetching", "blob"}) : downloadingUrl = downloads[i].url
          /\ Len(savedFiles) = Cardinality(CallsAt({"saved", "revoked"}))
          /\ Len(openedTabs) = Cardinality(CallsAt({"opened"})))
    /\ [][\A i \in DOMAIN downloads :
             Pending(downloads[i]) /\ ~Pending(downloads'[i]) =>
                 /\ downloadingUrl' = NoDownload
                 /\ \/ /\ downloads'[i].pc = "saved"
                       /\ downloads[i].pc = "blob"
                       /\ savedFiles' = Append(savedFiles, downloads[i].filename)
                       /\ openedTabs' = openedTabs
                    \/ /\ downloads'[i].pc = "opened"
                       /\ openedTabs' = Append(openedTabs, downloads[i].url)
                       /\ savedFiles' = savedFiles]_vars
    /\ [][Len(downloads') > Len(downloads) /\ downloadingUrl # NoDownload =>
             /\ downloads' = Append(downloads, downloads'[Len(downloads')])
             /\ downloads'[Len(downloads')].pc = "ignored"
             /\ UNCHANGED <<downloadingUrl, savedFiles, openedTabs>>]_vars

\* one call saved its file, one opened a tab, one was made during another
C21_Witness ==
    /\ CallsAt({"saved", "revoked"}) # {}
    /\ CallsAt({"opened"}) # {}
    /\ CallsAt({"ignored"}) # {}
    /\ downloadingUrl = NoDownload

\* ------------------------------------------------------------------------
\* VideoPlayer: phases of the buffering state

\* C22: once the cleanup has run for a transfer (isAborted set, abort
\* signalled), no step of that transfer writes downloadProgress,
\* isDownloading, blobUrl or useDirectStream, also when the read it waited
\* for had resolved before the cleanup ran.
C22_NoWriteAfterCleanup ==
    [][\A i \in DOMAIN transfers :
          Steps(i) /\ transfers[i].isAborted =>
              UNCHANGED <<downloadProgress, isDownloading, blobUrl, useDirectStream>>]_vars

\* C23: the player is in one phase at a time: at most one of isDownloading,
\* blobUrl set and useDirectStream holds.
C23_OnePhaseAtATime ==
    Cardinality({f \in {"downloading", "ready", "fallback"} :
                    \/ f = "downloading" /\ isDownloading
                    \/ f = "ready" /\ blobUrl # NoBlob
                    \/ f = "fallback" /\ useDirectStream}) <= 1

\* C24: while playerType is 'iframe' no transfer runs, no object URL is
\* created, and isDownloading is false, blobUrl null, useDirectStream false.
C24_IframeIsIdle ==
    /\ [](mounted /\ propPlayerType = "iframe" =>
             /\ ~isDownloading
             /\ blobUrl = NoBlob
             /\ ~useDirectStream
             /\ \A i \in DOMAIN transfers :
                    InFlight(transfers[i]) => transfers[i].isAborted)
    /\ [][mounted /\ propPlayerType = "iframe" /\ propPlayerType' = "iframe" =>
             /\ Len(transfers') = Len(transfers)
             /\ objectUrls' \subseteq objectUrls]_vars

\* the player is Downloading: the overlay of a mounted native player
Downloading == mounted /\ propPlayerType = "native" /\ showLoadingOverlay

\* C28: nothing but the completion of the transfer, its failure with an error
\* that is not an abort, skipDownload, a change of source or the unmount takes
\* the player out of Downloading: a transfer that stalls holds it there.
C28_NoTimeoutOutOfDownloading ==
    [][Downloading /\ ~Downloading' =>
          \/ Returns(Len(transfers), "done") /\ blobUrl' = ObjectUrlOf(Len(transfers))
          \/ Returns(Len(transfers), "failed") /\ useDirectStream'
          \/ /\ useDirectStream' /\ ~isDownloading'
             /\ UNCHANGED <<transfers, propUrl, propPlayerType, mounted, blobUrl>>
          \/ <<propUrl, propPlayerType>>' # <<propUrl, propPlayerType>>
          \/ ~mounted']_vars

\* a transfer that has read all it will get, the player still Downloading,
\* another transfer cancelled before
C28_Witness ==
    /\ Downloading
    /\ Len(transfers) = 2
    /\ transfers[1].pc = "cancelled"
    /\ transfers[2].pc = "reading" /\ transfers[2].loaded = MaxLoaded
    /\ transfers[2].total = 0

\* C30: after skipDownload the player stays in StreamingFallback for the
\* source: while the source is the same, blobUrl stays null and the active
\* source is the url prop, also when the transfer completes later.
C30_SkipIsFinal ==
    [][(/\ mounted /\ mounted'
        /\ useDirectStream /\ blobUrl = NoBlob
        /\ <<propUrl, propPlayerType>>' = <<propUrl, propPlayerType>>) =>
            /\ blobUrl' = NoBlob
            /\ useDirectStream'
            /\ activeSrc' = SrcUrl(propUrl)]_vars

\* ------------------------------------------------------------------------
\* parseVideoInput: the short link's contents, the order of the requests and
\* their URLs

\* the identifier the patterns of step 2 find in a text: BV first, then av
IdFoundIn(s) == IF BVMatch(s) # Empty THEN BVMatch(s) ELSE AVMatch(s)

\* the proxy answered with an object without a usable redirect, with contents
ContentsOnly(resp) ==
    /\ resp.kind = "object"
    /\ ~(Truthy(resp.statusUrl) /\ ~includes(resp.statusUrl, <<"b","2","3",".","t","v">>))
    /\ Truthy(resp.contents)

\* C25: when the short-link response has no usable redirect but has contents,
\* the Bilibili identifier in the contents, BV or av<digits>, found with the
\* patterns of the direct classification, is the identifier of the request,
\* and the result is for that identifier.
C25_ContentsIdExtracted ==
    \A r \in DOMAIN req :
        LET rec == req[r]
        IN  (/\ rec.pc \notin {"idle", "shortlink"}
             /\ ContentsOnly(rec.shortResp)
             /\ IdFoundIn(rec.shortResp.contents) # Empty) =>
                /\ IdOf(rec) = IdFoundIn(rec.shortResp.contents)
                /\ rec.pc = "done" =>
                      /\ rec.result # Null => rec.result.platform = "bilibili"
                      /\ rec.result # Null => rec.result.id = IdFoundIn(rec.shortResp.contents)
                      /\ rec.metaResp # NoResponse

\* C26: within one call, the short-link request has settled before an
\* identifier is chosen or another request is issued; the metadata request has
\* settled before the stream request is issued; both have settled before the
\* result of a Bilibili identifier is built; there is no result and no outcome
\* while a request is pending.
C26_RequestsInOrder ==
    \A r \in DOMAIN req :
        LET rec == req[r]
        IN  /\ rec.pc = "shortlink" =>
                /\ rec.shortReq # Empty /\ rec.shortResp = NoResponse
                /\ rec.bvid = Empty /\ rec.avid = Empty
                /\ rec.metaReq = Empty /\ rec.streamReq = Empty
            /\ (rec.shortReq # Empty /\ rec.pc # "shortlink") =>
                rec.shortResp # NoResponse
            /\ rec.pc = "meta" =>
                /\ rec.metaReq # Empty /\ rec.metaResp = NoResponse
                /\ rec.streamReq = Empty /\ rec.streamResp = NoResponse
            /\ rec.pc = "stream" =>
                /\ rec.metaResp # NoResponse
                /\ rec.streamReq # Empty /\ rec.streamResp = NoResponse
            /\ rec.pc \in {"shortlink", "meta", "stream"} =>
                rec.result = Null /\ rec.outcome = "none"
            /\ (rec.pc = "done" /\ rec.metaReq # Empty) =>
                /\ rec.metaResp # NoResponse
                /\ rec.streamReq # Empty /\ rec.streamResp # NoResponse
            /\ (rec.result # Null /\ rec.result.platform = "bilibili") =>
                rec.metaResp # NoResponse /\ rec.streamResp # NoResponse

\* a short link that went through the three requests, one after the other,
\* and resolved with the native result
C26_Witness ==
    \E r \in DOMAIN req :
        /\ req[r].pc = "done" /\ req[r].outcome = "resolved"
        /\ req[r].shortResp # NoResponse
        /\ req[r].metaResp # NoResponse
        /\ req[r].streamResp # NoResponse
        /\ req[r].result.playerType = "native"
        /\ data = req[r].result

\* the proxy URL ends with its own timestamp parameter
StampedOutside(u) ==
    LET stamp == <<"&","t","=">> \o Now
    IN  Len(u) > Len(stamp) /\ LitAt(u, Len(u) - Len(stamp) + 1, stamp)

\* the target URL, encoded inside the proxy URL, has a parameter t
StampedInside(u) == includes(u, <<"%","2","6","t","%","3","D">>) \/ includes(u, <<"%","3","F","t","%","3","D">>)

\* C27: every stream request has a timestamp inside the parser-API target URL
\* and one on the proxy URL; every short-link request and every metadata
\* request has a timestamp on the proxy URL.
C27_RequestsStamped ==
    \A r \in DOMAIN req :
        /\ req[r].shortReq # Empty => StampedOutside(req[r].shortReq)
        /\ req[r].metaReq # Empty => StampedOutside(req[r].metaReq)
        /\ req[r].streamReq # Empty =>
              StampedOutside(req[r].streamReq) /\ StampedInside(req[r].streamReq)

\* the calls of handleParse that went past the empty-input return
Requests == {r \in DOMAIN req : req[r].pc # "idle" /\ req[r].outcome # "ignored"}

\* what handleParse shows for a request that has settled
ShownFor(rec) == SettledApp(rec, AppState(Null, "PARSING", "")).data

\* C29: the result shown is that of the most recently submitted request: once
\* a later request has been submitted, by the button or by the Enter key, also
\* while the earlier one is pending, the earlier request's result or error is
\* not written into data, status or errorMsg.
C29_LatestRequestWins ==
    [][/\ \A r \in DOMAIN req :
            (/\ req[r].pc \in {"shortlink", "meta", "stream"}
             /\ req'[r].pc = "done"
             /\ \E q \in Requests : q > r) =>
                UNCHANGED <<data, status, errorMsg>>
       /\ (status' = "SUCCESS" /\ Requests' # {}) =>
              data' = ShownFor(req'[Max(Requests')])]_vars
====
